---- MODULE Spec2Model ----
(***************************************************************************)
(* A model of the filesystem layer of XCommon (Code/Filesystem.hpp and     *)
(* Code/Filesystem.cpp): the move-only stream handles (StreamReader,       *)
(* StreamWriter, FindHandleWrapper), the one-shot file facades             *)
(* (FileReader, FileWriter) and their detached asynchronous wrappers.      *)
(*                                                                         *)
(* Eight specifications share the module:                                  *)
(*   Spec       the stream handles: two storage slots holding objects of   *)
(*              one class, driven through every public operation;          *)
(*   ReadSpec   one StreamReader over every short file and argument;       *)
(*   FileSpec   the synchronous facades applied to one file;               *)
(*   AsyncSpec  (with AsyncFairSpec) the asynchronous wrappers, their      *)
(*              detached workers and the caller's buffer;                  *)
(*   PathSpec   one Path value driven through its string operations, in    *)
(*              both build configurations of PATH_SEPARATOR;               *)
(*   DirSpec    (with DirFairSpec) CreateAll, step by step, and            *)
(*              CopyDirectory on small file systems;                       *)
(*   EntriesSpec (with EntriesFairSpec) iterations over Path::Entries();   *)
(*   DateSpec   the time string of a DateTime.                             *)
(***************************************************************************)
EXTENDS Integers, Sequences, FiniteSets, TLC

VARIABLES
    kind,      \* the class of the objects of this run: "reader" | "writer" | "find"
    disk,      \* the bytes of the file at GoodPath
    obj,       \* slot -> the object stored there
    rel,       \* OS handle -> how many times it was released (close / FindClose)
    nextH,     \* the next OS handle the system hands out
    out,       \* the caller's output buffer (std::vector<u8> or std::string) as
               \* the last call left it, empty when that call took none
    last,      \* the last call: its operation, arguments and result
    fs,        \* FileSpec, AsyncSpec: the file at GoodPath, NoFile when absent
    fres,      \* FileSpec: the last facade call: operation, argument, result
    win32,     \* FileSpec: whether text streams translate line breaks (_WIN32)
    abuf,      \* AsyncSpec: the caller's buffer (a std::vector<u8> or str)
    tasks,     \* AsyncSpec: task id -> the packaged task and its future
    pth,       \* PathSpec: the Path under study
    plast,     \* PathSpec: the last Path call
    dt,        \* DateSpec: the DateTime under study and its time string
    tree,      \* DirSpec: the file system, path string -> what is there
    dop        \* DirSpec: the directory operation under way or just ended

streamVars == <<kind, disk, obj, rel, nextH, out, last>>
fileVars   == <<fs, fres, win32>>
asyncVars  == <<abuf, tasks>>
pathVars   == <<pth, plast>>
dateVars   == <<dt>>
dirVars    == <<tree, dop>>
moreVars   == <<dt, tree, dop>>
vars       == <<kind, disk, obj, rel, nextH, out, last, fs, fres, win32,
                abuf, tasks, pth, plast, dt, tree, dop>>

----------------------------------------------------------------------------
(* Bounds of the model. *)

\* OS handles the system hands out in one run
MaxHandles == 2
\* longest file content the readers are given
MaxLen == 2
\* largest in-range offset passed to Seek
MaxOff == 3
\* largest ordinary size passed to Read
MaxReq == 3
\* longest file a StreamWriter may produce
MaxWLen == 2
\* width in bits of the model's u64 / size_t (the code's is 64)
WordBits == 4

\* '\n'
LF == 10
\* '\r'
CR == 13

\* the two objects a move involves: the storage of its source and of its target
Slots   == {1, 2}
Handles == 1..MaxHandles
Bytes   == {LF, 65}

RECURSIVE Pow2(_)
Pow2(n) == IF n = 0 THEN 1 ELSE 2 * Pow2(n - 1)

\* u64 and size_t arithmetic wraps modulo 2^WordBits
UMod == Pow2(WordBits)
UAdd(a, b) == (a + b) % UMod
USub(a, b) == (a - b + UMod) % UMod
\* SIZE_MAX
SizeMax == UMod - 1
\* the smallest u64 that is negative as std::streamoff
SignBit == Pow2(WordBits - 1)
\* std::vector<u8>::max_size(): PTRDIFF_MAX
VecMax == SignBit - 1

Min(a, b) == IF a < b THEN a ELSE b
Max(a, b) == IF a > b THEN a ELSE b

SeqsUpTo(S, n) == UNION {[1..k -> S] : k \in 0..n}

\* the paths handed to constructors: GoodPath can be opened, BadPath cannot
\* (a missing file for a reader, a missing directory for a writer)
GoodPath == "file"
BadPath  == "missing"
Paths    == {GoodPath, BadPath}

----------------------------------------------------------------------------
(* std::basic_ios state and the objects. *)

Good    == {}
EofBit  == {"eof"}
FailBit == {"fail"}
IoStates == {Good, EofBit, FailBit, EofBit \cup FailBit}

\* An object of the run's class.  status: "none" (storage never used), "alive",
\* "dead" (destroyed).  A FindHandleWrapper keeps its handle in h (0 is
\* INVALID_HANDLE_VALUE) and uses no other field.  pend: bytes written to a
\* std::ofstream and not yet flushed to the file.
NoObj == [status |-> "none", open |-> FALSE, h |-> 0, st |-> Good, pos |-> 0,
          mSize |-> 0, pend |-> <<>>, app |-> FALSE]

NoCall == [op |-> "none", s |-> 0, d |-> 0, ret |-> FALSE, wasOpen |-> FALSE,
           changed |-> FALSE, req |-> 0, prePos |-> 0, threw |-> FALSE, h |-> 0,
           val |-> 0, path |-> ""]

Call(op, s, ret, wasOpen, changed) ==
    [NoCall EXCEPT !.op = op, !.s = s, !.ret = ret, !.wasOpen = wasOpen,
                   !.changed = changed]

\* the release counts after the handles hs are released once more (counted up to 2)
Closes(r, hs) == [h \in DOMAIN r |-> IF h \in hs THEN Min(2, r[h] + 1) ELSE r[h]]

\* the handle an open std::fstream releases when it is closed or destroyed
Held(o) == IF o.open THEN {o.h} ELSE {}

----------------------------------------------------------------------------
(* std::ifstream on the file, as StreamReader uses it. *)

\* std::ifstream(path, binary | ate) followed by nothing else: the stream of a
\* fresh object, open on handle h at the end of the file, or failed
IfstreamOpen(p, h) ==
    IF p = GoodPath
    THEN [NoObj EXCEPT !.status = "alive", !.open = TRUE, !.h = h, !.pos = Len(disk)]
    ELSE [NoObj EXCEPT !.status = "alive", !.st = FailBit]

\* std::istream::read(buf, n): the bytes extracted and the stream afterwards;
\* eofbit and failbit are set when the file ends before n bytes
IfstreamRead(o, n) ==
    LET got == Min(n, Max(0, Len(disk) - o.pos))
    IN  [bytes |-> SubSeq(disk, o.pos + 1, o.pos + got),
         o     |-> [o EXCEPT !.pos = o.pos + got,
                             !.st = IF got < n THEN @ \cup EofBit \cup FailBit ELSE @]]

\* std::vector<u8>::resize(n) followed by a read of `bytes` into its front
Filled(buf, n, bytes) ==
    [i \in 1..n |-> IF i <= Len(bytes) THEN bytes[i]
                    ELSE IF i <= Len(buf) THEN buf[i] ELSE 0]

\* the index of the first LF of a byte sequence, 0 when it has none
FirstLF(bs) ==
    IF \E i \in 1..Len(bs) : bs[i] = LF
    THEN CHOOSE i \in 1..Len(bs) : bs[i] = LF /\ \A j \in 1..(i - 1) : bs[j] # LF
    ELSE 0

\* std::getline(stream, line) on a good stream: the line and the stream afterwards
IfstreamGetline(o) ==
    LET rest == SubSeq(disk, o.pos + 1, Len(disk))
        k    == FirstLF(rest)
    IN  IF Len(rest) = 0
        THEN [line |-> <<>>, o |-> [o EXCEPT !.st = EofBit \cup FailBit]]
        ELSE IF k > 0
        THEN [line |-> SubSeq(rest, 1, k - 1), o |-> [o EXCEPT !.pos = o.pos + k]]
        ELSE [line |-> rest, o |-> [o EXCEPT !.pos = Len(disk), !.st = EofBit]]

\* seekg / seekp((std::streamoff)offset): an offset with the sign bit set is a
\* negative position, which fails; any other offset is accepted, past the end too
StreamSeek(o, offset) ==
    IF offset >= SignBit THEN [o EXCEPT !.st = @ \cup FailBit]
    ELSE [o EXCEPT !.pos = offset]

----------------------------------------------------------------------------
(* StreamReader. *)

ReaderIsOpen(o) == o.open /\ o.st = Good

ReaderPosition(o) == IF ~ReaderIsOpen(o) THEN 0 ELSE o.pos

ReaderSize(o) == o.mSize

\* StreamReader(path): the size is cached from the position the stream opened at
ReaderCtor(p, h) ==
    LET s == IfstreamOpen(p, h)
    IN  IF s.open THEN [s EXCEPT !.mSize = s.pos, !.pos = 0]
        ELSE [s EXCEPT !.mSize = 0]

\* Close(): the object afterwards (the handle it released is o.h when o.open)
ReaderClose(o) == IF o.open THEN [o EXCEPT !.open = FALSE, !.h = 0, !.pos = 0] ELSE o

\* the size Read asks the buffer and the stream for
ReaderReadSize(o, size) ==
    LET currentPos == ReaderPosition(o)
    IN  IF UAdd(currentPos, size) > o.mSize THEN USub(o.mSize, currentPos) ELSE size

\* Read(data, size): the object, the caller's buffer and the result; threw is
\* std::length_error out of data.resize
ReaderRead(o, buf, size) ==
    IF ~ReaderIsOpen(o) \/ size = 0
    THEN [o |-> o, data |-> buf, ret |-> FALSE, threw |-> FALSE]
    ELSE LET n == ReaderReadSize(o, size)
         IN  IF n > VecMax
             THEN [o |-> o, data |-> buf, ret |-> FALSE, threw |-> TRUE]
             ELSE LET r == IfstreamRead(o, n)
                  IN  [o |-> r.o, data |-> Filled(buf, n, r.bytes),
                       ret |-> r.o.st = Good, threw |-> FALSE]

ReaderSeek(o, offset) ==
    IF ~ReaderIsOpen(o) THEN [o |-> o, ret |-> FALSE]
    ELSE LET n == StreamSeek(o, offset) IN [o |-> n, ret |-> n.st = Good]

\* ReadAll without its IsOpen() test
ReaderReadAllUnguarded(o, buf) ==
    LET size == ReaderSize(o)
    IN  IF size = 0 THEN [o |-> o, data |-> <<>>, ret |-> TRUE]
        ELSE LET r == IfstreamRead(ReaderSeek(o, 0).o, size)
             IN  [o |-> r.o, data |-> Filled(buf, size, r.bytes), ret |-> r.o.st = Good]

\* ReadAll without its Seek(0)
ReaderReadAllNoSeek(o, buf) ==
    IF ~ReaderIsOpen(o) THEN [o |-> o, data |-> buf, ret |-> FALSE]
    ELSE LET size == ReaderSize(o)
         IN  IF size = 0 THEN [o |-> o, data |-> <<>>, ret |-> TRUE]
             ELSE LET r == IfstreamRead(o, size)
                  IN  [o |-> r.o, data |-> Filled(buf, size, r.bytes),
                       ret |-> r.o.st = Good]

ReaderReadAll(o, buf) ==
    IF ~ReaderIsOpen(o) THEN [o |-> o, data |-> buf, ret |-> FALSE]
    ELSE LET size == ReaderSize(o)
         IN  IF size = 0 THEN [o |-> o, data |-> <<>>, ret |-> TRUE]
             ELSE LET r == IfstreamRead(ReaderSeek(o, 0).o, size)
                  IN  [o |-> r.o, data |-> Filled(buf, size, r.bytes),
                       ret |-> r.o.st = Good]

ReaderReadLine(o, ln) ==
    IF ~ReaderIsOpen(o) THEN [o |-> o, line |-> ln, ret |-> FALSE]
    ELSE LET r == IfstreamGetline(o)
         IN  [o |-> r.o, line |-> r.line, ret |-> ~("fail" \in r.o.st)]

\* StreamReader(StreamReader&& other): the new object and what is left of other;
\* u is the state the standard leaves unspecified for a moved-from stream
ReaderMoveCtor(other, u) ==
    [dst |-> other,
     src |-> [other EXCEPT !.open = FALSE, !.h = 0, !.pos = 0, !.st = u, !.mSize = 0]]

\* the move assignment without other.mSize = 0
ReaderMoveAssignKeepsSize(this, other) ==
    [dst |-> other,
     src |-> [other EXCEPT !.open = FALSE, !.h = 0, !.pos = 0,
                           !.st = ReaderClose(this).st]]

\* operator=(StreamReader&& other) with this # &other: Close(), then the
\* streams are move-assigned (the stream states are swapped) and the size taken
ReaderMoveAssign(this, other) ==
    [dst |-> other,
     src |-> [other EXCEPT !.open = FALSE, !.h = 0, !.pos = 0,
                           !.st = ReaderClose(this).st, !.mSize = 0]]

----------------------------------------------------------------------------
(* std::ofstream on the file, as StreamWriter uses it. *)

\* the file after the bytes bs are stored at offset start (a gap is zero filled)
Overlay(f, start, bs) ==
    IF bs = <<>> THEN f
    ELSE [i \in 1..Max(Len(f), start + Len(bs)) |->
             IF i > start /\ i <= start + Len(bs) THEN bs[i - start]
             ELSE IF i <= Len(f) THEN f[i] ELSE 0]

\* the file once the stream's pending bytes are written out: at the end of the
\* file for an appending stream, else where the stream stood when they were put
Synced(o, f) ==
    Overlay(f, IF o.app THEN Len(f) ELSE o.pos - Len(o.pend), o.pend)

\* std::ofstream(path, binary | app) or (path, binary | trunc) on handle h
OfstreamOpen(p, append, h) ==
    IF p = GoodPath
    THEN [o    |-> [NoObj EXCEPT !.status = "alive", !.open = TRUE, !.h = h,
                                 !.app = append,
                                 !.pos = IF append THEN Len(disk) ELSE 0],
          disk |-> IF append THEN disk ELSE <<>>]
    ELSE [o |-> [NoObj EXCEPT !.status = "alive", !.st = FailBit, !.app = append],
          disk |-> disk]

\* std::ostream::write / operator<< of the bytes bs: they are buffered
OfstreamPut(o, bs) == [o EXCEPT !.pend = @ \o bs, !.pos = @ + Len(bs)]

----------------------------------------------------------------------------
(* StreamWriter. *)

WriterIsOpen(o) == o.open /\ o.st = Good

WriterPosition(o) == IF ~WriterIsOpen(o) THEN 0 ELSE o.pos

WriterCtor(p, append, h) == OfstreamOpen(p, append, h)

\* Close(): flush() and close() when the stream is open
WriterClose(o, f) ==
    IF o.open
    THEN [o |-> [o EXCEPT !.open = FALSE, !.h = 0, !.pos = 0, !.pend = <<>>],
          disk |-> Synced(o, f)]
    ELSE [o |-> o, disk |-> f]

\* Write(buffer, size)
WriterWriteN(o, buffer, size) ==
    IF ~WriterIsOpen(o) \/ size = 0 THEN [o |-> o, ret |-> FALSE]
    ELSE LET n == IF size > Len(buffer) THEN Len(buffer) ELSE size
             w == OfstreamPut(o, SubSeq(buffer, 1, n))
         IN  [o |-> w, ret |-> w.st = Good]

\* Write(buffer)
WriterWrite(o, buffer) == WriterWriteN(o, buffer, Len(buffer))

WriterWriteLine(o, ln) ==
    IF ~WriterIsOpen(o) THEN [o |-> o, ret |-> FALSE]
    ELSE LET w == OfstreamPut(o, ln \o <<LF>>) IN [o |-> w, ret |-> w.st = Good]

WriterFlush(o, f) ==
    IF ~WriterIsOpen(o) THEN [o |-> o, disk |-> f, ret |-> FALSE]
    ELSE [o |-> [o EXCEPT !.pend = <<>>], disk |-> Synced(o, f), ret |-> TRUE]

\* Seek(offset): seekp writes the pending bytes out before it moves
WriterSeek(o, f, offset) ==
    IF ~WriterIsOpen(o) THEN [o |-> o, disk |-> f, ret |-> FALSE]
    ELSE LET n == StreamSeek([o EXCEPT !.pend = <<>>], offset)
         IN  [o |-> n, disk |-> Synced(o, f), ret |-> n.st = Good]

\* StreamWriter(StreamWriter&& other); u as for ReaderMoveCtor
WriterMoveCtor(other, u) ==
    [dst |-> other,
     src |-> [other EXCEPT !.open = FALSE, !.h = 0, !.pos = 0, !.st = u,
                           !.pend = <<>>]]

\* operator=(StreamWriter&& other) with this # &other, after its Close()
WriterMoveAssign(this, other) ==
    [dst |-> other,
     src |-> [other EXCEPT !.open = FALSE, !.h = 0, !.pos = 0, !.st = this.st,
                           !.pend = <<>>]]

----------------------------------------------------------------------------
(* FindHandleWrapper: h = 0 is INVALID_HANDLE_VALUE. *)

FindDefaultCtor == [NoObj EXCEPT !.status = "alive"]

FindCtor(handle) == [NoObj EXCEPT !.status = "alive", !.h = handle]

FindIsValid(o) == o.h # 0

\* ~FindHandleWrapper(): the handles passed to FindClose
FindDtorCloses(o) == IF o.h # 0 THEN {o.h} ELSE {}

\* the move constructor without other.mHandle = INVALID_HANDLE_VALUE
FindMoveCtorKeepsHandle(other) == [dst |-> other, src |-> other]

FindMoveCtor(other) ==
    [dst |-> other, src |-> [other EXCEPT !.h = 0]]

\* operator=(FindHandleWrapper&& other) with this # &other
FindMoveAssign(this, other) ==
    [dst |-> [this EXCEPT !.h = other.h],
     src |-> [other EXCEPT !.h = 0],
     closes |-> IF this.h # 0 THEN {this.h} ELSE {}]

----------------------------------------------------------------------------
(* The stream specification: the caller's operations on the objects. *)

\* what the caller's buffer holds before a read: a byte no file holds
CallerBufs  == {<<>>, <<7>>}
\* the arguments tried on a single reader (ReadSpec)
ReadSizes   == 0..MaxReq \cup {SizeMax}
SeekOffsets == 0..Min(MaxOff, SignBit - 1) \cup {SignBit}
\* the arguments tried where two objects are moved about (Spec)
FewSizes    == {0, 1, SizeMax}
FewOffsets  == {0, SignBit}
FewBufs     == {<<7>>}
WriteBufs   == {<<>>, <<65, LF>>}
WriteSizes  == {0, 1}
TextLines   == {<<65>>}

Alive(s) == obj[s].status = "alive"
Others   == <<fs, fres, win32, abuf, tasks, pth, plast, moreVars>>

RNew(s, p) ==
    /\ kind = "reader" /\ ~Alive(s)
    /\ p = GoodPath => nextH <= MaxHandles
    /\ obj' = [obj EXCEPT ![s] = ReaderCtor(p, nextH)]
    /\ nextH' = IF p = GoodPath THEN nextH + 1 ELSE nextH
    /\ last' = [Call("Ctor", s, ReaderIsOpen(obj'[s]), FALSE, FALSE) EXCEPT !.path = p]
    /\ out' = <<>>
    /\ UNCHANGED <<kind, disk, rel, Others>>

RClose(s) ==
    /\ kind = "reader" /\ Alive(s)
    /\ obj' = [obj EXCEPT ![s] = ReaderClose(obj[s])]
    /\ rel' = Closes(rel, Held(obj[s]))
    /\ last' = Call("Close", s, FALSE, ReaderIsOpen(obj[s]), FALSE)
    /\ out' = <<>>
    /\ UNCHANGED <<kind, disk, nextH, Others>>

\* ~StreamReader(): Close(), then the std::ifstream member is destroyed
RDtor(s) ==
    /\ kind = "reader" /\ Alive(s)
    /\ LET c == ReaderClose(obj[s])
       IN  /\ obj' = [obj EXCEPT ![s] = [NoObj EXCEPT !.status = "dead"]]
           /\ rel' = Closes(Closes(rel, Held(obj[s])), Held(c))
    /\ last' = Call("Dtor", s, FALSE, ReaderIsOpen(obj[s]), FALSE)
    /\ out' = <<>>
    /\ UNCHANGED <<kind, disk, nextH, Others>>

RMoveCtor(d, s) ==
    /\ kind = "reader" /\ Alive(s) /\ ~Alive(d)
    /\ \E u \in {Good, obj[s].st} :
          LET m == ReaderMoveCtor(obj[s], u)
          IN  obj' = [obj EXCEPT ![d] = m.dst, ![s] = m.src]
    /\ last' = [Call("MoveCtor", s, FALSE, ReaderIsOpen(obj[s]), FALSE)
                   EXCEPT !.d = d, !.h = obj[s].h, !.prePos = obj[s].pos]
    /\ out' = <<>>
    /\ UNCHANGED <<kind, disk, rel, nextH, Others>>

RMoveAssign(d, s) ==
    /\ kind = "reader" /\ Alive(s) /\ Alive(d)
    /\ IF d = s THEN UNCHANGED <<obj, rel>>
       ELSE LET m == ReaderMoveAssign(obj[d], obj[s])
            IN  /\ obj' = [obj EXCEPT ![d] = m.dst, ![s] = m.src]
                /\ rel' = Closes(rel, Held(obj[d]))
    /\ last' = [Call("MoveAssign", s, FALSE, ReaderIsOpen(obj[s]), FALSE)
                   EXCEPT !.d = d, !.h = obj[s].h, !.prePos = obj[s].pos]
    /\ out' = <<>>
    /\ UNCHANGED <<kind, disk, nextH, Others>>

RRead(s, buf, size) ==
    /\ kind = "reader" /\ Alive(s)
    /\ LET r == ReaderRead(obj[s], buf, size)
       IN  /\ obj' = [obj EXCEPT ![s] = r.o]
           /\ out' = r.data
           /\ last' = [Call("Read", s, r.ret, ReaderIsOpen(obj[s]), r.data # buf)
                          EXCEPT !.req = size, !.prePos = ReaderPosition(obj[s]),
                                 !.threw = r.threw]
    /\ UNCHANGED <<kind, disk, rel, nextH, Others>>

RReadAll(s, buf) ==
    /\ kind = "reader" /\ Alive(s)
    /\ LET r == ReaderReadAll(obj[s], buf)
       IN  /\ obj' = [obj EXCEPT ![s] = r.o]
           /\ out' = r.data
           /\ last' = [Call("ReadAll", s, r.ret, ReaderIsOpen(obj[s]), r.data # buf)
                          EXCEPT !.prePos = ReaderPosition(obj[s])]
    /\ UNCHANGED <<kind, disk, rel, nextH, Others>>

RReadLine(s, buf) ==
    /\ kind = "reader" /\ Alive(s)
    /\ LET r == ReaderReadLine(obj[s], buf)
       IN  /\ obj' = [obj EXCEPT ![s] = r.o]
           /\ out' = r.line
           /\ last' = [Call("ReadLine", s, r.ret, ReaderIsOpen(obj[s]), r.line # buf)
                          EXCEPT !.prePos = ReaderPosition(obj[s])]
    /\ UNCHANGED <<kind, disk, rel, nextH, Others>>

RSeek(s, offset) ==
    /\ kind = "reader" /\ Alive(s)
    /\ LET r == ReaderSeek(obj[s], offset)
       IN  /\ obj' = [obj EXCEPT ![s] = r.o]
           /\ last' = [Call("Seek", s, r.ret, ReaderIsOpen(obj[s]), FALSE)
                          EXCEPT !.req = offset]
    /\ out' = <<>>
    /\ UNCHANGED <<kind, disk, rel, nextH, Others>>

RPosition(s) ==
    /\ kind = "reader" /\ Alive(s)
    /\ last' = [Call("Position", s, FALSE, ReaderIsOpen(obj[s]), FALSE)
                   EXCEPT !.val = ReaderPosition(obj[s])]
    /\ out' = <<>>
    /\ UNCHANGED <<kind, disk, obj, rel, nextH, Others>>

\* construction, Close, destruction and the moves of StreamReader
ReaderLife(s) ==
    \/ \E p \in Paths : RNew(s, p)
    \/ RClose(s)
    \/ RDtor(s)
    \/ \E d \in Slots : RMoveCtor(d, s)
    \/ \E d \in Slots : RMoveAssign(d, s)

\* the reading calls of StreamReader with arguments from the given sets
ReaderCalls(s, bufs, sizes, offsets) ==
    \/ \E b \in bufs, n \in sizes : RRead(s, b, n)
    \/ \E b \in bufs : RReadAll(s, b)
    \/ \E b \in bufs : RReadLine(s, b)
    \/ \E k \in offsets : RSeek(s, k)
    \/ RPosition(s)

ReaderNext == \E s \in Slots : ReaderLife(s) \/ ReaderCalls(s, FewBufs, FewSizes, FewOffsets)

\* every byte written through the writer still fits a file of MaxWLen bytes
Fits(o, n) == Max(o.pos, Len(disk) + Len(o.pend)) + n <= MaxWLen

WNew(s, p, append) ==
    /\ kind = "writer" /\ ~Alive(s)
    /\ p = GoodPath => nextH <= MaxHandles
    /\ LET r == WriterCtor(p, append, nextH)
       IN  /\ obj' = [obj EXCEPT ![s] = r.o]
           /\ disk' = r.disk
           /\ last' = [Call("Ctor", s, WriterIsOpen(r.o), FALSE, r.disk # disk)
                          EXCEPT !.path = p]
    /\ nextH' = IF p = GoodPath THEN nextH + 1 ELSE nextH
    /\ out' = <<>>
    /\ UNCHANGED <<kind, rel, Others>>

WClose(s) ==
    /\ kind = "writer" /\ Alive(s)
    /\ LET r == WriterClose(obj[s], disk)
       IN  /\ obj' = [obj EXCEPT ![s] = r.o]
           /\ disk' = r.disk
           /\ last' = Call("Close", s, FALSE, WriterIsOpen(obj[s]), r.disk # disk)
    /\ rel' = Closes(rel, Held(obj[s]))
    /\ out' = <<>>
    /\ UNCHANGED <<kind, nextH, Others>>

\* ~StreamWriter(): Close(), then the std::ofstream member is destroyed
WDtor(s) ==
    /\ kind = "writer" /\ Alive(s)
    /\ LET r == WriterClose(obj[s], disk)
       IN  /\ obj' = [obj EXCEPT ![s] = [NoObj EXCEPT !.status = "dead"]]
           /\ disk' = Synced(r.o, r.disk)
           /\ rel' = Closes(Closes(rel, Held(obj[s])), Held(r.o))
           /\ last' = Call("Dtor", s, FALSE, WriterIsOpen(obj[s]), disk' # disk)
    /\ out' = <<>>
    /\ UNCHANGED <<kind, nextH, Others>>

WMoveCtor(d, s) ==
    /\ kind = "writer" /\ Alive(s) /\ ~Alive(d)
    /\ \E u \in {Good, obj[s].st} :
          LET m == WriterMoveCtor(obj[s], u)
          IN  obj' = [obj EXCEPT ![d] = m.dst, ![s] = m.src]
    /\ last' = [Call("MoveCtor", s, FALSE, WriterIsOpen(obj[s]), FALSE)
                   EXCEPT !.d = d, !.h = obj[s].h, !.prePos = obj[s].pos]
    /\ out' = <<>>
    /\ UNCHANGED <<kind, disk, rel, nextH, Others>>

WMoveAssign(d, s) ==
    /\ kind = "writer" /\ Alive(s) /\ Alive(d)
    /\ IF d = s THEN UNCHANGED <<obj, rel, disk>>
       ELSE LET c == WriterClose(obj[d], disk)
                m == WriterMoveAssign(c.o, obj[s])
            IN  /\ obj' = [obj EXCEPT ![d] = m.dst, ![s] = m.src]
                /\ disk' = c.disk
                /\ rel' = Closes(rel, Held(obj[d]))
    /\ last' = [Call("MoveAssign", s, FALSE, WriterIsOpen(obj[s]), disk' # disk)
                   EXCEPT !.d = d, !.h = obj[s].h, !.prePos = obj[s].pos]
    /\ out' = <<>>
    /\ UNCHANGED <<kind, nextH, Others>>

WWriteN(s, buffer, size) ==
    /\ kind = "writer" /\ Alive(s)
    /\ Fits(obj[s], Min(size, Len(buffer)))
    /\ LET r == WriterWriteN(obj[s], buffer, size)
       IN  /\ obj' = [obj EXCEPT ![s] = r.o]
           /\ last' = [Call("Write", s, r.ret, WriterIsOpen(obj[s]), r.o.pend # obj[s].pend)
                          EXCEPT !.req = size]
    /\ out' = <<>>
    /\ UNCHANGED <<kind, disk, rel, nextH, Others>>

WWrite(s, buffer) ==
    /\ kind = "writer" /\ Alive(s)
    /\ Fits(obj[s], Len(buffer))
    /\ LET r == WriterWrite(obj[s], buffer)
       IN  /\ obj' = [obj EXCEPT ![s] = r.o]
           /\ last' = [Call("Write", s, r.ret, WriterIsOpen(obj[s]), r.o.pend # obj[s].pend)
                          EXCEPT !.req = Len(buffer)]
    /\ out' = <<>>
    /\ UNCHANGED <<kind, disk, rel, nextH, Others>>

WWriteLine(s, ln) ==
    /\ kind = "writer" /\ Alive(s)
    /\ Fits(obj[s], Len(ln) + 1)
    /\ LET r == WriterWriteLine(obj[s], ln)
       IN  /\ obj' = [obj EXCEPT ![s] = r.o]
           /\ last' = Call("WriteLine", s, r.ret, WriterIsOpen(obj[s]),
                           r.o.pend # obj[s].pend)
    /\ out' = <<>>
    /\ UNCHANGED <<kind, disk, rel, nextH, Others>>

WFlush(s) ==
    /\ kind = "writer" /\ Alive(s)
    /\ LET r == WriterFlush(obj[s], disk)
       IN  /\ obj' = [obj EXCEPT ![s] = r.o]
           /\ disk' = r.disk
           /\ last' = Call("Flush", s, r.ret, WriterIsOpen(obj[s]), r.disk # disk)
    /\ out' = <<>>
    /\ UNCHANGED <<kind, rel, nextH, Others>>

WSeek(s, offset) ==
    /\ kind = "writer" /\ Alive(s)
    /\ offset < SignBit => offset <= MaxWLen
    /\ LET r == WriterSeek(obj[s], disk, offset)
       IN  /\ obj' = [obj EXCEPT ![s] = r.o]
           /\ disk' = r.disk
           /\ last' = [Call("Seek", s, r.ret, WriterIsOpen(obj[s]), r.disk # disk)
                          EXCEPT !.req = offset]
    /\ out' = <<>>
    /\ UNCHANGED <<kind, rel, nextH, Others>>

WPosition(s) ==
    /\ kind = "writer" /\ Alive(s)
    /\ last' = [Call("Position", s, FALSE, WriterIsOpen(obj[s]), FALSE)
                   EXCEPT !.val = WriterPosition(obj[s])]
    /\ out' = <<>>
    /\ UNCHANGED <<kind, disk, obj, rel, nextH, Others>>

WriterNext ==
    \E s \in Slots :
        \/ \E p \in Paths, a \in BOOLEAN : WNew(s, p, a)
        \/ WClose(s)
        \/ WDtor(s)
        \/ \E d \in Slots : WMoveCtor(d, s)
        \/ \E d \in Slots : WMoveAssign(d, s)
        \/ \E b \in WriteBufs, n \in WriteSizes : WWriteN(s, b, n)
        \/ \E b \in WriteBufs : WWrite(s, b)
        \/ \E l \in TextLines : WWriteLine(s, l)
        \/ WFlush(s)
        \/ \E k \in FewOffsets : WSeek(s, k)
        \/ WPosition(s)

\* FindHandleWrapper()
FNewDefault(s) ==
    /\ kind = "find" /\ ~Alive(s)
    /\ obj' = [obj EXCEPT ![s] = FindDefaultCtor]
    /\ last' = Call("Ctor", s, FALSE, FALSE, FALSE)
    /\ out' = <<>>
    /\ UNCHANGED <<kind, disk, rel, nextH, Others>>

\* FindHandleWrapper(::FindFirstFileA(...)): found says whether the search opened
FNew(s, found) ==
    /\ kind = "find" /\ ~Alive(s)
    /\ found => nextH <= MaxHandles
    /\ obj' = [obj EXCEPT ![s] = FindCtor(IF found THEN nextH ELSE 0)]
    /\ nextH' = IF found THEN nextH + 1 ELSE nextH
    /\ last' = Call("Ctor", s, found, FALSE, FALSE)
    /\ out' = <<>>
    /\ UNCHANGED <<kind, disk, rel, Others>>

FDtor(s) ==
    /\ kind = "find" /\ Alive(s)
    /\ obj' = [obj EXCEPT ![s] = [NoObj EXCEPT !.status = "dead"]]
    /\ rel' = Closes(rel, FindDtorCloses(obj[s]))
    /\ last' = Call("Dtor", s, FALSE, FindIsValid(obj[s]), FALSE)
    /\ out' = <<>>
    /\ UNCHANGED <<kind, disk, nextH, Others>>

FMoveCtor(d, s) ==
    /\ kind = "find" /\ Alive(s) /\ ~Alive(d)
    /\ LET m == FindMoveCtor(obj[s])
       IN  obj' = [obj EXCEPT ![d] = m.dst, ![s] = m.src]
    /\ last' = [Call("MoveCtor", s, FALSE, FindIsValid(obj[s]), FALSE)
                   EXCEPT !.d = d, !.h = obj[s].h, !.prePos = obj[s].pos]
    /\ out' = <<>>
    /\ UNCHANGED <<kind, disk, rel, nextH, Others>>

FMoveAssign(d, s) ==
    /\ kind = "find" /\ Alive(s) /\ Alive(d)
    /\ IF d = s THEN UNCHANGED <<obj, rel>>
       ELSE LET m == FindMoveAssign(obj[d], obj[s])
            IN  /\ obj' = [obj EXCEPT ![d] = m.dst, ![s] = m.src]
                /\ rel' = Closes(rel, m.closes)
    /\ last' = [Call("MoveAssign", s, FALSE, FindIsValid(obj[s]), FALSE)
                   EXCEPT !.d = d, !.h = obj[s].h, !.prePos = obj[s].pos]
    /\ out' = <<>>
    /\ UNCHANGED <<kind, disk, nextH, Others>>

FindNext ==
    \E s \in Slots :
        \/ FNewDefault(s)
        \/ \E f \in BOOLEAN : FNew(s, f)
        \/ FDtor(s)
        \/ \E d \in Slots : FMoveCtor(d, s)
        \/ \E d \in Slots : FMoveAssign(d, s)

----------------------------------------------------------------------------
(* FileReader and FileWriter: every call opens its own stream on the file, *)
(* uses it and closes it.  Each method is modelled in two parts, the       *)
(* stream constructor at its head (FileOpen) and the rest of its body,     *)
(* which takes the opened stream o; a synchronous call runs both at once,  *)
(* a detached worker runs them as two steps.                               *)

\* a file of the file system: absent, or present with its bytes
NoFile     == [exists |-> FALSE, bytes |-> <<>>]
FileOf(bs) == [exists |-> TRUE, bytes |-> bs]

\* the characters of texts and the bytes of payloads: 'A', '\n', '\r'
Chars == {65, LF, CR}

\* what a text-mode stream writes for s: on _WIN32 each '\n' goes out as "\r\n"
RECURSIVE TextOut(_, _)
TextOut(s, win) ==
    IF s = <<>> THEN <<>>
    ELSE (IF win /\ Head(s) = LF THEN <<CR, LF>> ELSE <<Head(s)>>)
         \o TextOut(Tail(s), win)

\* what a text-mode stream reads from bs: on _WIN32 each "\r\n" comes in as '\n'
RECURSIVE TextIn(_, _)
TextIn(bs, win) ==
    IF bs = <<>> THEN <<>>
    ELSE IF win /\ Len(bs) >= 2 /\ bs[1] = CR /\ bs[2] = LF
         THEN <<LF>> \o TextIn(Tail(Tail(bs)), win)
         ELSE <<Head(bs)>> \o TextIn(Tail(bs), win)

\* repeated std::getline over s until it fails: the lines of s
RECURSIVE GetLines(_)
GetLines(s) ==
    IF s = <<>> THEN <<>>
    ELSE LET k == FirstLF(s)
         IN  IF k = 0 THEN <<s>>
             ELSE <<SubSeq(s, 1, k - 1)>> \o GetLines(SubSeq(s, k + 1, Len(s)))

\* file << line << '\n' for each line
RECURSIVE PutLines(_)
PutLines(lines) ==
    IF lines = <<>> THEN <<>>
    ELSE Head(lines) \o <<LF>> \o PutLines(Tail(lines))

\* std::ifstream(path, ...): opens an existing file; where the mode has
\* std::ios::ate, size is what tellg() then answers
IfsOpen(f, p) ==
    LET ok == p = GoodPath /\ f.exists
    IN  [ok |-> ok, size |-> IF ok THEN Len(f.bytes) ELSE 0, f |-> f]

\* a variant of OfsOpenTrunc that keeps the bytes of an existing file
OfsOpenKeep(f, p) ==
    [ok |-> p = GoodPath, size |-> 0,
     f |-> IF p = GoodPath /\ ~f.exists THEN FileOf(<<>>) ELSE f]

\* std::ofstream(path, ... | std::ios::trunc): creates the file or empties it
OfsOpenTrunc(f, p) ==
    [ok |-> p = GoodPath, size |-> 0,
     f |-> IF p = GoodPath THEN FileOf(<<>>) ELSE f]

\* a variant of OfsOpenInOut that empties the file it opens
OfsOpenInOutTruncates(f, p) ==
    [ok |-> p = GoodPath /\ f.exists, size |-> 0,
     f |-> IF p = GoodPath /\ f.exists THEN FileOf(<<>>) ELSE f]

\* std::ofstream(path, binary | in | out): opens an existing file as it is
OfsOpenInOut(f, p) ==
    [ok |-> p = GoodPath /\ f.exists, size |-> 0, f |-> f]

\* what a method hands back: the file afterwards, its return value (ret for
\* bool and size_t moved to n, bytes for std::vector<u8> and str, lines for
\* std::vector<str>) and whether it left by an exception
FileRes(f) ==
    [f |-> f, ret |-> FALSE, n |-> 0, bytes |-> <<>>, lines |-> <<>>,
     threw |-> FALSE]

ReadBytes(f, o) ==
    IF ~o.ok THEN FileRes(f)
    ELSE IF Len(f.bytes) < o.size THEN FileRes(f)
    ELSE [FileRes(f) EXCEPT !.bytes = SubSeq(f.bytes, 1, o.size)]

ReadText(f, o, win) ==
    IF ~o.ok THEN FileRes(f)
    ELSE [FileRes(f) EXCEPT !.bytes = TextIn(f.bytes, win)]

ReadLines(f, o, win) ==
    IF ~o.ok THEN FileRes(f)
    ELSE [FileRes(f) EXCEPT !.lines = GetLines(TextIn(f.bytes, win))]

ReadBlock(f, o, size, offset) ==
    IF ~o.ok THEN FileRes(f)
    ELSE IF offset >= o.size \/ size = 0 \/ UAdd(offset, size) > o.size
         THEN FileRes(f)
    ELSE IF offset >= SignBit THEN FileRes(f)
    ELSE IF size > VecMax THEN [FileRes(f) EXCEPT !.threw = TRUE]
    ELSE IF offset + size > Len(f.bytes) THEN FileRes(f)
    ELSE [FileRes(f) EXCEPT !.bytes = SubSeq(f.bytes, offset + 1, offset + size)]

QueryFileSize(f, o) ==
    IF ~o.ok THEN FileRes(f) ELSE [FileRes(f) EXCEPT !.n = o.size]

\* the stream writes at its own position, whatever the file holds by then
FilePut(f, start, bs) == FileOf(Overlay(f.bytes, start, bs))

WriteBytes(f, o, data) ==
    IF ~o.ok THEN FileRes(f)
    ELSE [FileRes(FilePut(f, 0, data)) EXCEPT !.ret = TRUE]

\* a variant of WriteText that appends '\n' whatever the text ends with
WriteTextAlwaysAppends(f, o, text, win) ==
    IF ~o.ok \/ text = <<>> THEN FileRes(f)
    ELSE [FileRes(FilePut(f, 0, TextOut(text \o <<LF>>, win))) EXCEPT !.ret = TRUE]

WriteText(f, o, text, win) ==
    IF ~o.ok THEN FileRes(f)
    ELSE IF text = <<>> THEN FileRes(f)
    ELSE LET outText == IF text[Len(text)] # LF THEN text \o <<LF>> ELSE text
         IN  [FileRes(FilePut(f, 0, TextOut(outText, win))) EXCEPT !.ret = TRUE]

WriteLines(f, o, lines, win) ==
    IF ~o.ok THEN FileRes(f)
    ELSE [FileRes(FilePut(f, 0, TextOut(PutLines(lines), win))) EXCEPT !.ret = TRUE]

WriteBlock(f, o, data, offset) ==
    IF ~o.ok THEN FileRes(f)
    ELSE IF offset >= SignBit THEN FileRes(f)
    ELSE [FileRes(FilePut(f, offset, data)) EXCEPT !.ret = TRUE]

\* a call of a facade method: the method and its arguments
ReadOps  == {"ReadBytes", "ReadText", "ReadLines", "ReadBlock", "QueryFileSize"}
WriteOps == {"WriteBytes", "WriteText", "WriteLines", "WriteBlock"}
NoJob == [op |-> "none", path |-> "", data |-> <<>>, lines |-> <<>>,
          size |-> 0, offset |-> 0]
Job(op, p) == [NoJob EXCEPT !.op = op, !.path = p]

\* the stream constructor at the head of the method
FileOpen(f, job) ==
    CASE job.op \in ReadOps -> IfsOpen(f, job.path)
      [] job.op = "WriteBlock" -> OfsOpenInOut(f, job.path)
      [] OTHER -> OfsOpenTrunc(f, job.path)

\* the rest of the method, on the stream o it opened
FileBody(f, job, o, win) ==
    CASE job.op = "ReadBytes" -> ReadBytes(f, o)
      [] job.op = "ReadText" -> ReadText(f, o, win)
      [] job.op = "ReadLines" -> ReadLines(f, o, win)
      [] job.op = "ReadBlock" -> ReadBlock(f, o, job.size, job.offset)
      [] job.op = "QueryFileSize" -> QueryFileSize(f, o)
      [] job.op = "WriteBytes" -> WriteBytes(f, o, job.data)
      [] job.op = "WriteText" -> WriteText(f, o, job.data, win)
      [] job.op = "WriteLines" -> WriteLines(f, o, job.lines, win)
      [] OTHER -> WriteBlock(f, o, job.data, job.offset)

\* a synchronous call: the whole method
FileRun(f, job, win) ==
    LET o == FileOpen(f, job) IN FileBody(o.f, job, o, win)

\* the last call: the method and its arguments, the file before it and what
\* it handed back
NoFileCall == [job |-> NoJob, before |-> NoFile, res |-> FileRes(NoFile)]

\* arguments of the facade calls
MaxText == 2
Payloads   == SeqsUpTo(Bytes, MaxText)
Texts      == SeqsUpTo(Chars, MaxText)
LineLists  == {<<>>, <<<<65>>>>, <<<<>>, <<65>>>>}
BlockSizes == {0, 1, 2, SizeMax}
BlockOffs  == {0, 1, MaxOff, SignBit}
BlockData  == {<<>>, <<65>>, <<LF, 65>>}
FileJobsAt(p, payloads, texts, blocks, sizes, offs) ==
    {Job(op, p) : op \in ReadOps \ {"ReadBlock"}}
    \cup {[Job("ReadBlock", p) EXCEPT !.size = n, !.offset = k] :
              n \in sizes, k \in offs}
    \cup {[Job("WriteBytes", p) EXCEPT !.data = d] : d \in payloads}
    \cup {[Job("WriteText", p) EXCEPT !.data = d] : d \in texts}
    \cup {[Job("WriteLines", p) EXCEPT !.lines = l] : l \in LineLists}
    \cup {[Job("WriteBlock", p) EXCEPT !.data = d, !.offset = k] :
              d \in blocks, k \in offs}
FileJobs ==
    FileJobsAt(GoodPath, Payloads, Texts, BlockData, BlockSizes, BlockOffs)
    \cup FileJobsAt(BadPath, {<<65>>}, {<<65>>}, {<<65>>}, {1}, {0})

\* the values the variables of the stream specification rest at
StreamIdle ==
    /\ kind = "none" /\ disk = <<>> /\ obj = [s \in Slots |-> NoObj]
    /\ rel = [h \in Handles |-> 0] /\ nextH = 1 /\ out = <<>> /\ last = NoCall

\* a synchronous call of a facade method
FileCall(job) ==
    LET r == FileRun(fs, job, win32)
    IN  /\ fs' = r.f
        /\ fres' = [job |-> job, before |-> fs, res |-> r]
        /\ UNCHANGED <<win32, streamVars, asyncVars, pathVars, moreVars>>

FReadBytes     == \E j \in FileJobs : j.op = "ReadBytes" /\ FileCall(j)
FReadText      == \E j \in FileJobs : j.op = "ReadText" /\ FileCall(j)
FReadLines     == \E j \in FileJobs : j.op = "ReadLines" /\ FileCall(j)
FReadBlock     == \E j \in FileJobs : j.op = "ReadBlock" /\ FileCall(j)
FQueryFileSize == \E j \in FileJobs : j.op = "QueryFileSize" /\ FileCall(j)
FWriteBytes    == \E j \in FileJobs : j.op = "WriteBytes" /\ FileCall(j)
FWriteText     == \E j \in FileJobs : j.op = "WriteText" /\ FileCall(j)
FWriteLines    == \E j \in FileJobs : j.op = "WriteLines" /\ FileCall(j)
FWriteBlock    == \E j \in FileJobs : j.op = "WriteBlock" /\ FileCall(j)

----------------------------------------------------------------------------
(* AsyncFileReader and AsyncFileWriter: each method wraps the call of its  *)
(* synchronous counterpart in a lambda, hands the lambda to RunAsync and   *)
(* returns the future; RunAsync starts a detached thread that runs it.     *)

\* asynchronous calls of one run
MaxTasks == 2
TaskIds  == 1..MaxTasks

\* the caller's buffer once released
NoBuf == [live |-> FALSE, bytes |-> <<>>]

\* A task.  state: "none" (not created), "pending" (thread started, lambda not
\* begun), "opened" (the method has constructed its stream), "ready" (the
\* method has returned and the shared state holds res).  job: the lambda's
\* captures.  span: job.data was captured as a std::span, a pointer to the
\* caller's bytes and their count, not the bytes.  given: the data argument as
\* it was when the call was made; used: the data the method was run with.
\* future: "held" by the caller, or "gone" (taken by get() or destroyed).
NoTask == [state |-> "none", job |-> NoJob, span |-> FALSE, count |-> 0,
           given |-> <<>>, used |-> <<>>, threads |-> 0,
           o |-> IfsOpen(NoFile, BadPath), res |-> FileRes(NoFile),
           future |-> "none"]

\* the lambda of each method: [path, data] and [path, text] copy the caller's
\* bytes, WriteBlock's [path, data, offset] copies the std::span only
Lambda(job, buf) ==
    CASE job.op = "WriteBlock" ->
             [NoTask EXCEPT !.job = job, !.span = TRUE,
                            !.count = Len(buf.bytes), !.given = buf.bytes]
      [] job.op \in {"WriteBytes", "WriteText"} ->
             [NoTask EXCEPT !.job = [job EXCEPT !.data = buf.bytes],
                            !.given = buf.bytes]
      [] OTHER -> [NoTask EXCEPT !.job = job]

\* a variant of RunAsync that builds the task and never starts its thread
RunAsyncNoThread(task) ==
    [task EXCEPT !.state = "pending", !.future = "held"]

\* make_shared<packaged_task>, get_future(), std::thread(...).detach()
RunAsync(task) ==
    [task EXCEPT !.state = "pending", !.future = "held", !.threads = 1]

\* what a read through a span of n bytes finds: the buffer's bytes while the
\* buffer is alive and still holds n of them, anything once it was released
\* or reallocated
SpanBytes(n, buf) ==
    IF buf.live /\ Len(buf.bytes) = n THEN {buf.bytes} ELSE [1..n -> Bytes]

\* the arguments of the asynchronous calls
AsyncBufs == {<<65, 65>>, <<LF>>}
AsyncJobs ==
    {Job(op, GoodPath) : op \in {"ReadBytes", "ReadText", "ReadLines"}}
    \cup {Job("ReadBytes", BadPath), Job("WriteBytes", BadPath)}
    \cup {[Job("ReadBlock", GoodPath) EXCEPT !.size = 1]}
    \cup {Job(op, GoodPath) : op \in {"WriteBytes", "WriteText", "WriteBlock"}}
    \cup {[Job("WriteBlock", GoodPath) EXCEPT !.offset = 1]}
    \cup {[Job("WriteLines", GoodPath) EXCEPT !.lines = <<<<65>>>>]}

\* the task id the next call gets, 0 when the run has made MaxTasks calls
FreeTask ==
    IF \E t \in TaskIds : tasks[t].state = "none"
    THEN CHOOSE t \in TaskIds :
             tasks[t].state = "none" /\ \A u \in 1..(t - 1) : tasks[u].state # "none"
    ELSE 0

\* a call of an asynchronous method: it returns the future at once
AsyncCall(job) ==
    /\ FreeTask # 0
    /\ job.op \in {"WriteBytes", "WriteText", "WriteBlock"} => abuf.live
    /\ tasks' = [tasks EXCEPT ![FreeTask] = RunAsync(Lambda(job, abuf))]
    /\ UNCHANGED <<abuf, fileVars, streamVars, pathVars, moreVars>>

AReadBytes  == \E j \in AsyncJobs : j.op = "ReadBytes" /\ AsyncCall(j)
AReadText   == \E j \in AsyncJobs : j.op = "ReadText" /\ AsyncCall(j)
AReadLines  == \E j \in AsyncJobs : j.op = "ReadLines" /\ AsyncCall(j)
AReadBlock  == \E j \in AsyncJobs : j.op = "ReadBlock" /\ AsyncCall(j)
AWriteBytes == \E j \in AsyncJobs : j.op = "WriteBytes" /\ AsyncCall(j)
AWriteText  == \E j \in AsyncJobs : j.op = "WriteText" /\ AsyncCall(j)
AWriteLines == \E j \in AsyncJobs : j.op = "WriteLines" /\ AsyncCall(j)
AWriteBlock == \E j \in AsyncJobs : j.op = "WriteBlock" /\ AsyncCall(j)

\* the caller overwrites its buffer
CallerModify(bs) ==
    /\ abuf.live /\ bs # abuf.bytes
    /\ abuf' = [abuf EXCEPT !.bytes = bs]
    /\ UNCHANGED <<tasks, fileVars, streamVars, pathVars, moreVars>>

\* the caller's buffer goes out of scope
CallerFree ==
    /\ abuf.live
    /\ abuf' = NoBuf
    /\ UNCHANGED <<tasks, fileVars, streamVars, pathVars, moreVars>>

\* future.get() once the result is there
FutureGet(t) ==
    /\ tasks[t].state = "ready" /\ tasks[t].future = "held"
    /\ tasks' = [tasks EXCEPT ![t].future = "gone"]
    /\ UNCHANGED <<abuf, fileVars, streamVars, pathVars, moreVars>>

\* the caller destroys the future without waiting
FutureDrop(t) ==
    /\ tasks[t].state \in {"pending", "opened"} /\ tasks[t].future = "held"
    /\ tasks' = [tasks EXCEPT ![t].future = "gone"]
    /\ UNCHANGED <<abuf, fileVars, streamVars, pathVars, moreVars>>

\* the worker thread enters the method and constructs the stream
WorkerOpen(t) ==
    /\ tasks[t].state = "pending" /\ tasks[t].threads >= 1
    /\ LET o == FileOpen(fs, tasks[t].job)
       IN  /\ fs' = o.f
           /\ tasks' = [tasks EXCEPT ![t].state = "opened", ![t].o = o]
    /\ UNCHANGED <<abuf, fres, win32, streamVars, pathVars, moreVars>>

\* the worker thread runs the rest of the method and makes the future ready
WorkerBody(t) ==
    /\ tasks[t].state = "opened"
    /\ \E d \in (IF tasks[t].span THEN SpanBytes(tasks[t].count, abuf)
                 ELSE {tasks[t].job.data}) :
          LET r == FileBody(fs, [tasks[t].job EXCEPT !.data = d], tasks[t].o,
                            win32)
          IN  /\ fs' = r.f
              /\ tasks' = [tasks EXCEPT ![t].state = "ready", ![t].res = r,
                                        ![t].used = d]
    /\ UNCHANGED <<abuf, fres, win32, streamVars, pathVars, moreVars>>

Worker(t) == WorkerOpen(t) \/ WorkerBody(t)

----------------------------------------------------------------------------
(* Path: a value holding one string, mPath.  Strings are sequences of      *)
(* character codes.  An operation that constructs a Path hands back        *)
(* [threw, mPath]: threw when the constructor left by an exception.        *)

\* '\\', the PATH_SEPARATOR of a _WIN32 build
Backslash == 92
\* '/', the PATH_SEPARATOR of the other builds
Slash == 47
\* '.'
Dot == 46
DotDot == <<Dot, Dot>>

PATH_SEPARATOR(win) == IF win THEN Backslash ELSE Slash

\* std::to_string of an int: its decimal digits
RECURSIVE StdToString(_)
StdToString(n) ==
    IF n < 10 THEN <<48 + n>> ELSE StdToString(n \div 10) \o <<48 + (n % 10)>>

\* X_TOSTR(val): std::to_string(val); a char argument is promoted to int
X_TOSTR(val) == StdToString(val)

\* s.find_last_of(c) as a 0-based index, -1 for npos
FindLastOf(s, c) ==
    IF \E i \in 1..Len(s) : s[i] = c
    THEN (CHOOSE i \in 1..Len(s) : s[i] = c /\ \A j \in (i + 1)..Len(s) : s[j] # c) - 1
    ELSE -1

\* a variant of NormalizeParts that also keeps the empty parts
RECURSIVE NormalizePartsKeepsEmpty(_, _, _, _)
NormalizePartsKeepsEmpty(rawPath, sep, start, parts) ==
    IF start >= Len(rawPath) THEN parts
    ELSE LET found == {i \in (start + 1)..Len(rawPath) : rawPath[i] = sep}
             end   == IF found = {} THEN Len(rawPath)
                      ELSE (CHOOSE i \in found : \A j \in found : i <= j) - 1
             part  == SubSeq(rawPath, start + 1, end)
             next  == IF part = DotDot /\ parts # <<>> /\ parts[Len(parts)] # DotDot
                      THEN SubSeq(parts, 1, Len(parts) - 1)
                      ELSE IF part # <<Dot>> THEN Append(parts, part)
                      ELSE parts
         IN  NormalizePartsKeepsEmpty(rawPath, sep, end + 1, next)

\* the while loop of Normalize from position start (0-based) with the parts
\* collected so far
RECURSIVE NormalizeParts(_, _, _, _)
NormalizeParts(rawPath, sep, start, parts) ==
    IF start >= Len(rawPath) THEN parts
    ELSE LET found == {i \in (start + 1)..Len(rawPath) : rawPath[i] = sep}
             end   == IF found = {} THEN Len(rawPath)
                      ELSE (CHOOSE i \in found : \A j \in found : i <= j) - 1
             part  == SubSeq(rawPath, start + 1, end)
             next  == IF part = DotDot /\ parts # <<>> /\ parts[Len(parts)] # DotDot
                      THEN SubSeq(parts, 1, Len(parts) - 1)
                      ELSE IF part # <<>> /\ part # <<Dot>> THEN Append(parts, part)
                      ELSE parts
         IN  NormalizeParts(rawPath, sep, end + 1, next)

\* for (part : parts) result += PATH_SEPARATOR + part
RECURSIVE JoinedParts(_, _)
JoinedParts(parts, sep) ==
    IF parts = <<>> THEN <<>>
    ELSE <<sep>> \o Head(parts) \o JoinedParts(Tail(parts), sep)

\* Path::Normalize.  With _WIN32, result.substr(1, result.size() - 1) throws
\* std::out_of_range when result is empty (pos 1 > size 0).
Normalize(rawPath, win) ==
    LET sep    == PATH_SEPARATOR(win)
        result == JoinedParts(NormalizeParts(rawPath, sep, 0, <<>>), sep)
    IN  IF win
        THEN IF result = <<>> THEN [threw |-> TRUE, str |-> <<>>]
             ELSE [threw |-> FALSE,
                   str |-> IF Tail(result) = <<>> THEN <<sep>> ELSE Tail(result)]
        ELSE [threw |-> FALSE, str |-> IF result = <<>> THEN <<sep>> ELSE result]

\* Path::Path(const str& path) : mPath(Normalize(path))
PathCtor(path, win) ==
    LET n == Normalize(path, win) IN [threw |-> n.threw, mPath |-> n.str]

Parent(mPath, win) ==
    LET lastSeparator == FindLastOf(mPath, PATH_SEPARATOR(win))
    IN  IF lastSeparator = -1 \/ lastSeparator = 0
        THEN PathCtor(X_TOSTR(PATH_SEPARATOR(win)), win)
        ELSE PathCtor(SubSeq(mPath, 1, lastSeparator), win)

HasExtension(mPath, win) ==
    LET pos == FindLastOf(mPath, Dot)
        sep == FindLastOf(mPath, PATH_SEPARATOR(win))
    IN  pos # -1 /\ (sep = -1 \/ pos > sep)

Extension(mPath, win) ==
    IF ~HasExtension(mPath, win) THEN <<>>
    ELSE SubSeq(mPath, FindLastOf(mPath, Dot) + 2, Len(mPath))

ReplaceExtension(mPath, ext, win) ==
    IF ~HasExtension(mPath, win) THEN PathCtor(mPath \o <<Dot>> \o ext, win)
    ELSE PathCtor(SubSeq(mPath, 1, FindLastOf(mPath, Dot)) \o <<Dot>> \o ext, win)

\* the static Path::Join(lhs, rhs)
Join(lhs, rhs, win) ==
    IF lhs = <<>> THEN lhs
    ELSE IF rhs = <<>> THEN rhs
    ELSE IF lhs[Len(lhs)] = PATH_SEPARATOR(win) THEN lhs \o rhs
    ELSE lhs \o <<PATH_SEPARATOR(win)>> \o rhs

\* Path::Join(subPath) const and Path::operator/
JoinConst(mPath, subPath, win) == PathCtor(Join(mPath, subPath, win), win)
OperatorDiv(mPath, subPath, win) == PathCtor(Join(mPath, subPath, win), win)

\* Path& Path::Join(subPath): assigns mPath, constructs nothing
JoinInPlace(mPath, subPath, win) ==
    [threw |-> FALSE, mPath |-> Join(mPath, subPath, win)]

RelativeTo(thisStr, basePathStr, win) ==
    LET sep     == PATH_SEPARATOR(win)
        baseStr == IF basePathStr # <<>> /\ basePathStr[Len(basePathStr)] = sep
                   THEN basePathStr \o <<sep>> ELSE basePathStr
        relativePath == SubSeq(thisStr, Len(baseStr) + 1, Len(thisStr))
    IN  IF SubSeq(thisStr, 1, Min(Len(baseStr), Len(thisStr))) # baseStr
        THEN [threw |-> FALSE, mPath |-> thisStr]
        ELSE IF relativePath = <<>> THEN PathCtor(<<Dot>>, win)
        ELSE PathCtor(relativePath, win)

\* the Path under study: live once constructed; dflt when it descends from
\* the default constructor, which stores the empty string
NoPath == [live |-> FALSE, mPath |-> <<>>, dflt |-> FALSE]
\* the last Path call: operation, string argument, the base of RelativeTo,
\* the Path before it and whether it left by an exception
NoPathCall == [op |-> "none", arg |-> <<>>, base |-> <<>>, pre |-> NoPath,
               threw |-> FALSE]

\* longest raw string of characters the constructor is given
MaxRaw == 4
\* longest string a deriving operation may produce
MaxPath == 6
\* "/a/b/../c"
ExampleRaw == <<Slash, 97, Slash, 98, Slash, Dot, Dot, Slash, 99>>
Raws(win) == SeqsUpTo({PATH_SEPARATOR(win), Dot, 97}, MaxRaw) \cup {ExampleRaw}
Subs(win) == {<<>>, <<97>>, <<Dot>>, DotDot, <<PATH_SEPARATOR(win), 97>>}
Exts      == {<<>>, <<97>>}
BaseRaws(win) == {<<97>>, <<97, PATH_SEPARATOR(win), 97>>,
                  <<PATH_SEPARATOR(win)>>, DotDot}

\* a call that constructs a new Path from the one under study: the model
\* goes on with the new Path, or keeps the old one when none was constructed
PathCall(op, arg, base, r) ==
    /\ Len(r.mPath) <= MaxPath
    /\ pth' = IF r.threw THEN pth ELSE [pth EXCEPT !.mPath = r.mPath]
    /\ plast' = [op |-> op, arg |-> arg, base |-> base, pre |-> pth,
                 threw |-> r.threw]
    /\ UNCHANGED <<streamVars, fileVars, asyncVars, moreVars>>

PDefault ==
    /\ pth' = [live |-> TRUE, mPath |-> <<>>, dflt |-> TRUE]
    /\ plast' = [NoPathCall EXCEPT !.op = "Path()"]
    /\ UNCHANGED <<streamVars, fileVars, asyncVars, moreVars>>

PNew(raw) ==
    LET r == PathCtor(raw, win32)
    IN  /\ pth' = IF r.threw THEN pth
                  ELSE [live |-> TRUE, mPath |-> r.mPath, dflt |-> FALSE]
        /\ plast' = [NoPathCall EXCEPT !.op = "Path", !.arg = raw,
                                       !.threw = r.threw]
        /\ UNCHANGED <<streamVars, fileVars, asyncVars, moreVars>>

PParent == pth.live /\ PathCall("Parent", <<>>, <<>>, Parent(pth.mPath, win32))

PReplaceExtension(ext) ==
    pth.live /\ PathCall("ReplaceExtension", ext, <<>>,
                         ReplaceExtension(pth.mPath, ext, win32))

PJoinConst(sub) ==
    pth.live /\ PathCall("JoinConst", sub, <<>>, JoinConst(pth.mPath, sub, win32))

POperatorDiv(sub) ==
    pth.live /\ PathCall("operator/", sub, <<>>, OperatorDiv(pth.mPath, sub, win32))

PJoinInPlace(sub) ==
    pth.live /\ PathCall("JoinInPlace", sub, <<>>, JoinInPlace(pth.mPath, sub, win32))

PRelativeTo(base) ==
    pth.live /\ PathCall("RelativeTo", <<>>, base, RelativeTo(pth.mPath, base, win32))

----------------------------------------------------------------------------
(* DateTime (Code/DateTime.hpp): a time point and the strings formatted    *)
(* from it.  The broken-down local time that localtime_s stores, a std::tm, *)
(* is a record of tm_hour, tm_min and tm_sec.                               *)

\* operator<<(int) under std::setfill('0') << std::setw(2)
PutInt2(n) ==
    LET digits == StdToString(n)
    IN  IF Len(digits) < 2 THEN <<48>> \o digits ELSE digits

\* a variant of FormatTimeString that leaves hour 0 as it is
FormatTimeStringKeepsZero(tm) ==
    LET isPM == tm.tm_hour >= 12
        hour == tm.tm_hour % 12
    IN  PutInt2(hour) \o <<58>> \o PutInt2(tm.tm_min) \o <<58>>
            \o PutInt2(tm.tm_sec) \o (IF isPM THEN <<32, 80, 77>> ELSE <<32, 65, 77>>)

FormatTimeString(tm) ==
    LET isPM == tm.tm_hour >= 12
        hour == IF tm.tm_hour % 12 = 0 THEN 12 ELSE tm.tm_hour % 12
    IN  PutInt2(hour) \o <<58>> \o PutInt2(tm.tm_min) \o <<58>>
            \o PutInt2(tm.tm_sec) \o (IF isPM THEN <<32, 80, 77>> ELSE <<32, 65, 77>>)

\* DateTime::TimeString(): the local time of mTime, formatted
TimeString(timeTm) == FormatTimeString(timeTm)

\* the DateTime under study: the local time of its mTime and the string the
\* last TimeString() call returned, empty before the first call
NoDate == [live |-> FALSE, tm |-> [tm_hour |-> 0, tm_min |-> 0, tm_sec |-> 0],
           str |-> <<>>]

\* the local times the DateTime is constructed at
Hours   == 0..23
Minutes == {0, 9, 10, 45, 59}
Seconds == {0, 15, 30, 59}

\* DateTime(Timepoint time)
DNew(tm) ==
    /\ dt' = [live |-> TRUE, tm |-> tm, str |-> <<>>]
    /\ UNCHANGED <<streamVars, fileVars, asyncVars, pathVars, dirVars>>

DTimeString ==
    /\ dt.live
    /\ dt' = [dt EXCEPT !.str = TimeString(dt.tm)]
    /\ UNCHANGED <<streamVars, fileVars, asyncVars, pathVars, dirVars>>

----------------------------------------------------------------------------
(* Directories, in the _WIN32 build: Path::Create names an undeclared       *)
(* variable in its other branch, and Copy, CopyDirectory and                *)
(* DirectoryIterator call the Win32 API in every build.  The file system is *)
(* the set of the strings that name a directory and the set of those that   *)
(* name a regular file, each string as the OS is handed it and resolved     *)
(* from the current directory, which always exists.                         *)

NoTree == [dirs |-> {}, files |-> {}]

\* stat(mPath.c_str(), &info): what the string names
Stat(t, s) ==
    IF s \in t.dirs THEN "dir" ELSE IF s \in t.files THEN "file" ELSE "none"

Exists(t, mPath)      == Stat(t, mPath) # "none"
IsFile(t, mPath)      == Stat(t, mPath) = "file"
IsDirectory(t, mPath) == Stat(t, mPath) = "dir"

\* the directory in which the OS looks up the last component of s is there
OsParentIsDir(t, s) ==
    LET k == FindLastOf(s, Backslash)
    IN  s # <<>> /\ (k <= 0 \/ SubSeq(s, 1, k) \in t.dirs)

\* ::CreateDirectoryA(s, nullptr) and the GetLastError() after it
CreateDirectoryA(t, s) ==
    IF ~OsParentIsDir(t, s)
    THEN [ok |-> FALSE, error |-> "ERROR_PATH_NOT_FOUND", t |-> t]
    ELSE IF Stat(t, s) # "none"
    THEN [ok |-> FALSE, error |-> "ERROR_ALREADY_EXISTS", t |-> t]
    ELSE [ok |-> TRUE, error |-> "", t |-> [t EXCEPT !.dirs = @ \cup {s}]]

\* ::CopyFileA(from, to, FALSE): an existing file at to is overwritten
CopyFileA(t, from, to) ==
    IF Stat(t, from) # "file" \/ Stat(t, to) = "dir" \/ ~OsParentIsDir(t, to)
    THEN [ok |-> FALSE, t |-> t]
    ELSE [ok |-> TRUE, t |-> [t EXCEPT !.files = @ \cup {to}]]

\* the names FindFirstFileA / FindNextFileA report for mPath + "\\*": the two
\* pseudo-entries and the immediate children
ChildNames(t, mPath) ==
    {SubSeq(s, Len(mPath) + 2, Len(s)) :
        s \in {c \in t.dirs \cup t.files :
                  /\ Len(c) > Len(mPath) + 1
                  /\ SubSeq(c, 1, Len(mPath) + 1) = mPath \o <<Backslash>>
                  /\ \A i \in (Len(mPath) + 2)..Len(c) : c[i] # Backslash}}

Listing(t, mPath) == {<<Dot>>, DotDot} \cup ChildNames(t, mPath)

\* every order in which the OS may report a set of names
RECURSIVE Orders(_)
Orders(S) ==
    IF S = {} THEN {<<>>}
    ELSE UNION {{<<x>> \o rest : rest \in Orders(S \ {x})} : x \in S}

\* one of these orders
RECURSIVE AnOrder(_)
AnOrder(S) ==
    IF S = {} THEN <<>>
    ELSE LET x == CHOOSE x \in S : TRUE IN <<x>> \o AnOrder(S \ {x})

Create(t, mPath) ==
    IF Exists(t, mPath) THEN [ret |-> TRUE, t |-> t]
    ELSE LET r == CreateDirectoryA(t, mPath)
         IN  IF ~r.ok /\ r.error # "ERROR_ALREADY_EXISTS"
             THEN [ret |-> FALSE, t |-> t]
             ELSE [ret |-> TRUE, t |-> r.t]

\* Path::Copy on a file (X_ASSERT(IsFile()) holds)
Copy(t, mPath, dest) ==
    IF dest = mPath THEN [ret |-> TRUE, t |-> t]
    ELSE LET r == CopyFileA(t, mPath, dest) IN [ret |-> r.ok, t |-> r.t]

\* Path::CopyDirectory: [ret, t, tried], where tried lists the children it
\* attempted, each with the result of its attempt.  CopyEntries is the
\* do-while loop over the names that are left; the enumeration ends with
\* ERROR_NO_MORE_FILES.  depth bounds the nesting of the recursion.
RECURSIVE CopyDirectory(_, _, _, _, _)
RECURSIVE CopyEntries(_, _, _, _, _, _, _)
CopyEntries(t, mPath, dest, names, success, win, depth) ==
    IF names = <<>> THEN [ret |-> success, t |-> t, tried |-> <<>>]
    ELSE LET cFileName == Head(names)
         IN  IF cFileName = <<Dot>> \/ cFileName = DotDot
             THEN CopyEntries(t, mPath, dest, Tail(names), success, win, depth)
             ELSE LET srcPath  == JoinConst(mPath, cFileName, win).mPath
                      destPath == OperatorDiv(dest, cFileName, win).mPath
                      r    == IF IsDirectory(t, srcPath)
                              THEN CopyDirectory(t, srcPath, destPath, win, depth - 1)
                              ELSE Copy(t, srcPath, destPath)
                      rest == CopyEntries(r.t, mPath, dest, Tail(names),
                                          success /\ r.ret, win, depth)
                 IN  [rest EXCEPT !.tried =
                                     <<[name |-> cFileName, ret |-> r.ret]>> \o @]

CopyDirectory(t, mPath, dest, win, depth) ==
    IF depth = 0 \/ ~IsDirectory(t, mPath)
    THEN [ret |-> FALSE, t |-> t, tried |-> <<>>]
    ELSE LET mk == CreateDirectoryA(t, dest)
         IN  IF ~mk.ok /\ mk.error # "ERROR_ALREADY_EXISTS"
             THEN [ret |-> FALSE, t |-> t, tried |-> <<>>]
             ELSE CopyEntries(mk.t, mPath, dest, AnOrder(Listing(mk.t, mPath)),
                              TRUE, win, depth)

\* DirectoryIterator: mIsEnd, mRoot, mCurrent and, behind mFindHandle, the
\* names the enumeration has not reported yet
NoIter == [mIsEnd |-> TRUE, mRoot |-> <<>>, mCurrent |-> <<>>, find |-> <<>>]

RECURSIVE OperatorInc(_, _)
RECURSIVE ProcessCurrentEntry(_, _, _)

\* a variant of ProcessCurrentEntry that takes '.' and '..' as entries
ProcessCurrentEntryKeepsDots(it, cFileName, win) ==
    [it EXCEPT !.mCurrent = OperatorDiv(it.mRoot, cFileName, win).mPath]

ProcessCurrentEntry(it, cFileName, win) ==
    IF cFileName = <<Dot>> \/ cFileName = DotDot THEN OperatorInc(it, win)
    ELSE [it EXCEPT !.mCurrent = OperatorDiv(it.mRoot, cFileName, win).mPath]

\* DirectoryIterator::operator++()
OperatorInc(it, win) ==
    IF it.mIsEnd THEN it
    ELSE IF it.find = <<>> THEN [it EXCEPT !.mIsEnd = TRUE]
    ELSE ProcessCurrentEntry([it EXCEPT !.find = Tail(@)], Head(it.find), win)

\* DirectoryIterator(const Path&), the OS reporting the names in this order
IterCtor(t, path, order, win) ==
    IF ~IsDirectory(t, path) \/ order = <<>>
    THEN [NoIter EXCEPT !.mRoot = path]
    ELSE ProcessCurrentEntry([mIsEnd |-> FALSE, mRoot |-> path,
                              mCurrent |-> <<>>, find |-> Tail(order)],
                             Head(order), win)

\* the directory operation under way or just ended: its method, its Path and
\* destination, the file system it started on, its result; for CreateAll the
\* Paths of the active calls (innermost last), the value the callee just
\* returned ("none" while the innermost call has not returned), whether the
\* calls have used up the stack (the process is then terminated), and the
\* Path and result of the call before it; for CopyDirectory the attempts; for
\* an iteration the iterator and the Paths it has yielded
NoDirOp == [op |-> "none", p |-> <<>>, dest |-> <<>>, pre |-> NoTree,
            done |-> TRUE, ret |-> FALSE, stack |-> <<>>, rv |-> "none",
            overflow |-> FALSE, prevP |-> <<>>, prevRet |-> FALSE,
            tried |-> <<>>, it |-> NoIter, seen |-> <<>>]

\* the nesting of calls the stack has room for; a call nested deeper ends the
\* process with a stack overflow
MaxDepth == 6

\* p.CreateAll() is called
DCreateAll(p) ==
    /\ dop.done
    /\ dop' = [NoDirOp EXCEPT !.op = "CreateAll", !.p = p, !.pre = tree,
                              !.done = FALSE, !.stack = <<p>>,
                              !.prevP = IF dop.op = "CreateAll" THEN dop.p ELSE <<>>,
                              !.prevRet = dop.op = "CreateAll" /\ dop.ret]
    /\ UNCHANGED <<tree, win32, fs, fres, streamVars, asyncVars, pathVars, dateVars>>

\* the innermost call returns v to its caller, or to the program
CreateAllReturn(v, t) ==
    /\ tree' = t
    /\ dop' = IF Len(dop.stack) = 1
              THEN [dop EXCEPT !.stack = <<>>, !.rv = "none", !.done = TRUE, !.ret = v]
              ELSE [dop EXCEPT !.stack = SubSeq(@, 1, Len(@) - 1),
                               !.rv = IF v THEN "true" ELSE "false"]

\* the innermost call of CreateAll runs from its entry to its return or to
\* the recursive call on its Parent(), for which the stack may have no room
CreateAllEnter ==
    /\ dop.op = "CreateAll" /\ ~dop.done /\ ~dop.overflow /\ dop.rv = "none"
    /\ LET mPath      == dop.stack[Len(dop.stack)]
           parentPath == Parent(mPath, win32).mPath
       IN  IF Exists(tree, mPath) THEN CreateAllReturn(TRUE, tree)
           ELSE IF mPath # <<PATH_SEPARATOR(win32)>> /\ ~Exists(tree, parentPath)
           THEN /\ dop' = IF Len(dop.stack) < MaxDepth
                          THEN [dop EXCEPT !.stack = Append(@, parentPath)]
                          ELSE [dop EXCEPT !.overflow = TRUE]
                /\ tree' = tree
           ELSE LET r == Create(tree, mPath) IN CreateAllReturn(r.ret, r.t)
    /\ UNCHANGED <<win32, fs, fres, streamVars, asyncVars, pathVars, dateVars>>

\* the recursive call has returned: the caller runs on to its own return
CreateAllResume ==
    /\ dop.op = "CreateAll" /\ ~dop.done /\ dop.rv # "none"
    /\ IF dop.rv = "false" THEN CreateAllReturn(FALSE, tree)
       ELSE LET r == Create(tree, dop.stack[Len(dop.stack)])
            IN  CreateAllReturn(r.ret, r.t)
    /\ UNCHANGED <<win32, fs, fres, streamVars, asyncVars, pathVars, dateVars>>

\* p.CopyDirectory(dest) on a directory p
DCopyDirectory(p, dest) ==
    /\ dop.done /\ IsDirectory(tree, p)
    /\ LET r == CopyDirectory(tree, p, dest, win32, MaxDepth)
       IN  /\ tree' = r.t
           /\ dop' = [NoDirOp EXCEPT !.op = "CopyDirectory", !.p = p,
                                     !.dest = dest, !.pre = tree,
                                     !.ret = r.ret, !.tried = r.tried]
    /\ UNCHANGED <<win32, fs, fres, streamVars, asyncVars, pathVars, dateVars>>

\* the Paths an iteration has yielded, with the one the iterator now holds
Yield(seen, it) == IF it.mIsEnd THEN seen ELSE Append(seen, it.mCurrent)

\* auto it = p.Entries().begin(), read when it differs from end()
DBegin(p, order) ==
    /\ dop.done
    /\ LET it == IterCtor(tree, p, order, win32)
       IN  dop' = [NoDirOp EXCEPT !.op = "Entries", !.p = p, !.pre = tree,
                                  !.done = it.mIsEnd, !.it = it,
                                  !.seen = Yield(<<>>, it)]
    /\ UNCHANGED <<tree, win32, fs, fres, streamVars, asyncVars, pathVars, dateVars>>

\* ++it while it differs from end(), read when it still does
DIncrement ==
    /\ dop.op = "Entries" /\ ~dop.it.mIsEnd
    /\ LET it == OperatorInc(dop.it, win32)
       IN  dop' = [dop EXCEPT !.done = it.mIsEnd, !.it = it,
                              !.seen = Yield(@, it)]
    /\ UNCHANGED <<tree, win32, fs, fres, streamVars, asyncVars, pathVars, dateVars>>

\* the file systems a run starts on and the raw strings its Paths are built
\* from: "a", "b", "a\b", "a\b\a", "a\a\b", "92", "/a"
DirTrees ==
    {NoTree,
     [dirs |-> {<<97>>}, files |-> {}],
     [dirs |-> {<<57, 50>>}, files |-> {}],
     [dirs |-> {<<97>>}, files |-> {<<98>>}],
     [dirs |-> {<<97>>, <<98>>}, files |-> {<<97, Backslash, 97>>, <<98, Backslash, 97>>}],
     [dirs |-> {<<97>>, <<97, Backslash, 98>>},
      files |-> {<<97, Backslash, 97>>, <<97, Backslash, 98, Backslash, 97>>}],
     [dirs |-> {<<97>>},
      files |-> {<<97, Backslash, 97>>, <<97, Backslash, 98>>}],
     [dirs |-> {<<97>>, <<97, Backslash, 99>>},
      files |-> {<<97, Backslash, 97>>, <<97, Backslash, 98>>}],
     [dirs |-> {<<97>>, <<98>>, <<98, Backslash, 97>>},
      files |-> {<<97, Backslash, 97>>, <<97, Backslash, 98>>}]}
DirRaws ==
    {<<97>>, <<98>>, <<97, Backslash, 98>>, <<97, Backslash, 98, Backslash, 97>>,
     <<97, Backslash, 97, Backslash, 98>>, <<57, 50>>, <<Slash, 97>>}
DirPaths == {PathCtor(raw, TRUE).mPath : raw \in DirRaws}

\* the orders in which the OS may report the entries of p to an iterator,
\* which starts an enumeration only on a directory
EnumOrders(t, p) == IF IsDirectory(t, p) THEN Orders(Listing(t, p)) ELSE {<<>>}

\* the sources and destinations of CopyDirectory: "a" onto "b", "a" onto
\* itself, "a\b" onto "b"
CopyPairs ==
    {<<<<97>>, <<98>>>>, <<<<97>>, <<97>>>>, <<<<97, Backslash, 98>>, <<98>>>>}

\* the values the variables of the other specifications rest at
FileIdle  == fs = NoFile /\ fres = NoFileCall /\ win32 = FALSE
AsyncIdle == abuf = NoBuf /\ tasks = [t \in TaskIds |-> NoTask]
PathIdle  == pth = NoPath /\ plast = NoPathCall
DateIdle  == dt = NoDate
DirIdle   == tree = NoTree /\ dop = NoDirOp

Init ==
    /\ kind \in {"reader", "writer", "find"}
    /\ disk \in CASE kind = "reader" -> {<<>>, <<LF, 65>>}
                  [] kind = "writer" -> {<<65>>}
                  [] OTHER -> {<<>>}
    /\ obj = [s \in Slots |-> NoObj]
    /\ rel = [h \in Handles |-> 0]
    /\ nextH = 1
    /\ out = <<>>
    /\ last = NoCall
    /\ FileIdle /\ AsyncIdle /\ PathIdle /\ DateIdle /\ DirIdle

Next == ReaderNext \/ WriterNext \/ FindNext

Spec == Init /\ [][Next]_vars

\* One StreamReader over every file of up to MaxLen bytes, read with every argument.
ReadInit ==
    /\ kind = "reader"
    /\ disk \in SeqsUpTo(Bytes, MaxLen)
    /\ obj = [s \in Slots |-> NoObj]
    /\ rel = [h \in Handles |-> 0]
    /\ nextH = 1
    /\ out = <<>>
    /\ last = NoCall
    /\ FileIdle /\ AsyncIdle /\ PathIdle /\ DateIdle /\ DirIdle

ReadNext ==
    \/ \E p \in Paths : RNew(1, p)
    \/ RClose(1)
    \/ RDtor(1)
    \/ ReaderCalls(1, CallerBufs, ReadSizes, SeekOffsets)

ReadSpec == ReadInit /\ [][ReadNext]_vars

FileInit ==
    /\ fs \in {NoFile, FileOf(<<65>>)}
    /\ fres = NoFileCall
    /\ win32 \in BOOLEAN
    /\ StreamIdle /\ AsyncIdle /\ PathIdle /\ DateIdle /\ DirIdle

FileNext ==
    \/ FReadBytes \/ FReadText \/ FReadLines \/ FReadBlock \/ FQueryFileSize
    \/ FWriteBytes \/ FWriteText \/ FWriteLines \/ FWriteBlock

FileSpec == FileInit /\ [][FileNext]_vars

AsyncInit ==
    /\ fs \in {NoFile, FileOf(<<65>>)}
    /\ fres = NoFileCall
    /\ win32 = FALSE
    /\ abuf \in {[live |-> TRUE, bytes |-> b] : b \in AsyncBufs}
    /\ tasks = [t \in TaskIds |-> NoTask]
    /\ StreamIdle /\ PathIdle /\ DateIdle /\ DirIdle

AsyncNext ==
    \/ AReadBytes \/ AReadText \/ AReadLines \/ AReadBlock
    \/ AWriteBytes \/ AWriteText \/ AWriteLines \/ AWriteBlock
    \/ \E bs \in AsyncBufs : CallerModify(bs)
    \/ CallerFree
    \/ \E t \in TaskIds : FutureGet(t) \/ FutureDrop(t) \/ Worker(t)

AsyncSpec == AsyncInit /\ [][AsyncNext]_vars

\* a started thread is scheduled: it keeps taking steps while it has any
AsyncFairSpec == AsyncSpec /\ \A t \in TaskIds : WF_vars(Worker(t))

PathInit ==
    /\ win32 \in BOOLEAN
    /\ fs = NoFile /\ fres = NoFileCall
    /\ pth = NoPath /\ plast = NoPathCall
    /\ StreamIdle /\ AsyncIdle /\ DateIdle /\ DirIdle

\* A run constructs its Path, by default or from a raw string, and may later
\* construct it again from its own string.  The base paths of RelativeTo are
\* the Path itself and Paths built from raw strings.
PathNext ==
    \/ ~pth.live /\ PDefault
    \/ \E raw \in (IF pth.live THEN {pth.mPath} ELSE Raws(win32)) : PNew(raw)
    \/ PParent
    \/ \E ext \in Exts : PReplaceExtension(ext)
    \/ \E sub \in Subs(win32) : PJoinConst(sub) \/ POperatorDiv(sub) \/ PJoinInPlace(sub)
    \/ \E b \in BaseRaws(win32) :
           ~PathCtor(b, win32).threw /\ PRelativeTo(PathCtor(b, win32).mPath)
    \/ PRelativeTo(pth.mPath)

PathSpec == PathInit /\ [][PathNext]_vars

DirInit ==
    /\ win32 = TRUE
    /\ tree \in DirTrees
    /\ dop = NoDirOp
    /\ fs = NoFile /\ fres = NoFileCall
    /\ StreamIdle /\ AsyncIdle /\ PathIdle /\ DateIdle

\* One directory operation at a time: a call of CreateAll and its steps, or
\* a call of CopyDirectory.
DirNext ==
    \/ \E p \in DirPaths : DCreateAll(p)
    \/ CreateAllEnter
    \/ CreateAllResume
    \/ \E pair \in CopyPairs : DCopyDirectory(pair[1], pair[2])

DirSpec == DirInit /\ [][DirNext]_vars

\* a call that is under way keeps running
DirFairSpec == DirSpec /\ WF_vars(CreateAllEnter) /\ WF_vars(CreateAllResume)

\* Iterations over the entries of a Path, one after the other, the OS
\* reporting the entries in any order.
EntriesNext ==
    \/ \E p \in DirPaths : \E order \in EnumOrders(tree, p) : DBegin(p, order)
    \/ DIncrement

EntriesSpec == DirInit /\ [][EntriesNext]_vars

\* the loop over the entries keeps running
EntriesFairSpec == EntriesSpec /\ WF_vars(DIncrement)

DateInit ==
    /\ dt = NoDate
    /\ StreamIdle /\ FileIdle /\ AsyncIdle /\ PathIdle /\ DirIdle

DateNext ==
    \/ \E h \in Hours, m \in Minutes, s \in Seconds :
           DNew([tm_hour |-> h, tm_min |-> m, tm_sec |-> s])
    \/ DTimeString

DateSpec == DateInit /\ [][DateNext]_vars

----------------------------------------------------------------------------
(* The claims about the stream handles. *)

\* the live objects that hold OS handle h
Holders(h) == {s \in Slots : Alive(s) /\ obj[s].h = h}

\* C1: every OS handle that was opened is released exactly once: it is never
\* released twice, while it is unreleased exactly one live object holds it, and
\* it is released as soon as no live object holds it any more (every owner was
\* closed, destroyed, moved from or assigned over).
C1_ReleasedExactlyOnce ==
    \A h \in Handles :
        /\ rel[h] <= 1
        /\ h >= nextH => rel[h] = 0 /\ Holders(h) = {}
        /\ h < nextH => IF Holders(h) = {} THEN rel[h] = 1
                        ELSE rel[h] = 0 /\ Cardinality(Holders(h)) = 1

\* two handles were opened, one was released by a move assignment over its
\* owner, and the destructor of the last owner has just released the other
C1_Witness ==
    /\ nextH = 3 /\ rel[1] = 1 /\ rel[2] = 1
    /\ last.op = "Dtor" /\ last.wasOpen
    /\ \E s \in Slots : Alive(s) /\ obj[s].h = 0

StreamCalls == {"Read", "ReadAll", "ReadLine", "Write", "WriteLine", "Flush", "Seek"}

\* C2: a Read, ReadAll, ReadLine, Write, WriteLine, Flush or Seek on a reader or
\* writer that is not open returns false, throws nothing and changes neither
\* the file nor the caller's buffer nor the object; Position() on it returns 0.
C2_NotOpenCallsFail ==
    (kind # "find" /\ ~last.wasOpen) =>
        /\ last.op \in StreamCalls =>
              ~last.ret /\ ~last.changed /\ ~last.threw
              /\ ~(IF kind = "reader" THEN ReaderIsOpen(obj[last.s])
                   ELSE WriterIsOpen(obj[last.s]))
        /\ last.op = "Position" => last.val = 0

\* a ReadAll on a reader that was opened on a non-empty file and is no longer
\* open has just been refused, the caller's buffer as it was
C2_Witness ==
    /\ kind = "reader" /\ last.op = "ReadAll" /\ ~last.wasOpen
    /\ ReaderSize(obj[last.s]) > 0 /\ out = <<7>> /\ ~last.ret

ReaderCallOps == {"Read", "ReadAll", "ReadLine", "Seek"}

\* C3: a reader that was open before a Read, ReadAll, ReadLine or Seek call is
\* still open after it.
C3_StaysOpenThroughReads ==
    (last.op \in ReaderCallOps /\ last.wasOpen) => ReaderIsOpen(obj[last.s])

\* a ReadLine returned a line and the reader is not open any more
C3_ReadLineClosed ==
    last.op = "ReadLine" /\ last.wasOpen /\ last.ret /\ ~ReaderIsOpen(obj[last.s])

\* C4: after a move construction or move assignment from an open source into
\* another object, the source is not open (and a reader source has size 0), the
\* target is open on the source's handle at the source's position; and the
\* handle of every open object is unreleased, whatever was closed or destroyed
\* since.
C4_MoveTransfersStream ==
    /\ (kind # "find" /\ last.op \in {"MoveCtor", "MoveAssign"} /\ last.wasOpen
            /\ last.s # last.d) =>
          /\ ~obj[last.s].open
          /\ kind = "reader" => ReaderSize(obj[last.s]) = 0
                                /\ ReaderIsOpen(obj[last.d])
          /\ kind = "writer" => WriterIsOpen(obj[last.d])
          /\ obj[last.d].h = last.h
          /\ obj[last.d].pos = last.prePos
    /\ \A s \in Slots : (Alive(s) /\ obj[s].open) => rel[obj[s].h] = 0

\* an open object has just been move-assigned over another open object
C4_Witness ==
    /\ kind # "find" /\ last.op = "MoveAssign" /\ last.wasOpen /\ last.s # last.d
    /\ rel[3 - last.h] = 1 /\ obj[last.d].open

\* C5: a Read(data, size) with size > 0 on an open reader returns true and
\* leaves data.size() = min(size, bytes between the position and the end).
C5_ReadClamps ==
    (last.op = "Read" /\ last.wasOpen /\ last.req > 0) =>
        /\ ~last.threw
        /\ last.ret
        /\ Len(out) = Min(last.req, Max(0, ReaderSize(obj[last.s]) - last.prePos))

\* a Read of a reader positioned past the end of its file has thrown
C5_ReadPastEndThrew ==
    last.op = "Read" /\ last.wasOpen /\ last.threw /\ last.prePos > Len(disk)

\* C6: ReadAll on an open reader returns true, hands back the whole file (the
\* Size() bytes from offset 0) whatever the position was, and leaves the reader
\* open, so that it can be repeated; a reader constructed on an existing file
\* is open with Size() the file's length (0 for an empty file).
C6_ReadAllWholeFile ==
    /\ (last.op = "ReadAll" /\ last.wasOpen) =>
          /\ last.ret
          /\ out = disk
          /\ Len(out) = ReaderSize(obj[last.s])
          /\ ReaderIsOpen(obj[last.s])
    /\ (last.op = "Ctor" /\ last.path = GoodPath) =>
          ReaderIsOpen(obj[last.s]) /\ ReaderSize(obj[last.s]) = Len(disk)

\* ReadAll has just delivered a whole two-byte file from a position past its start
C6_Witness ==
    /\ last.op = "ReadAll" /\ last.wasOpen /\ last.prePos > 0 /\ last.ret
    /\ Len(out) = 2

----------------------------------------------------------------------------
(* FileReader / FileWriter round trips, checked under FileSpec. *)

\* C9: WriteBytes(path, B) on a writable path returns true and leaves the file
\* holding exactly B, whatever it held before (B empty included); ReadBytes
\* of an existing file returns exactly its content, so a ReadBytes that
\* follows the write, as the next call or applied to the state the write
\* left, returns exactly B.
C9_BytesRoundTrip ==
    /\ []((fres.job.op = "WriteBytes" /\ fres.job.path = GoodPath) =>
             (/\ fres.res.ret
              /\ fs = FileOf(fres.job.data)
              /\ FileRun(fs, Job("ReadBytes", GoodPath), win32).bytes
                     = fres.job.data))
    /\ []((fres.job.op = "ReadBytes" /\ fres.job.path = GoodPath
               /\ fres.before.exists) =>
             (fres.res.bytes = fres.before.bytes /\ fs = fres.before))
    /\ [][(/\ fres.job.op = "WriteBytes" /\ fres.job.path = GoodPath
           /\ fres'.job.op = "ReadBytes" /\ fres'.job.path = GoodPath) =>
              fres'.res.bytes = fres.job.data]_vars

\* a WriteBytes of a non-empty B over a longer previous content has returned
C9_Witness ==
    /\ fres.job.op = "WriteBytes" /\ fres.job.path = GoodPath
    /\ fres.job.data # <<>>
    /\ fres.before.exists /\ Len(fres.before.bytes) > Len(fres.job.data)
    /\ fres.res.ret

\* C10 (as amended): for every non-empty text t, WriteText(path, t) on a
\* writable path returns true and ReadText(path) then yields t itself when t
\* ends with a line break and t followed by one line break otherwise, as the
\* next call or applied to the state the write left; so the content ends with
\* a line break, and with two or more exactly when t does.
C10_TextRoundTrip ==
    /\ [](LET t == fres.job.data
              r == FileRun(fs, Job("ReadText", GoodPath), win32).bytes
          IN  (fres.job.op = "WriteText" /\ fres.job.path = GoodPath
                   /\ t # <<>>) =>
                 /\ fres.res.ret
                 /\ r = (IF t[Len(t)] = LF THEN t ELSE t \o <<LF>>)
                 /\ r[Len(r)] = LF
                 /\ ((Len(r) >= 2 /\ r[Len(r) - 1] = LF)
                        <=> (Len(t) >= 2 /\ t[Len(t)] = LF /\ t[Len(t) - 1] = LF)))
    /\ [][LET t == fres.job.data
          IN  (/\ fres.job.op = "WriteText" /\ fres.job.path = GoodPath
               /\ t # <<>>
               /\ fres'.job.op = "ReadText" /\ fres'.job.path = GoodPath) =>
                  fres'.res.bytes = (IF t[Len(t)] = LF THEN t ELSE t \o <<LF>>)]_vars

\* a WriteText of a text that had no final line break has returned, on a
\* platform that translates line breaks
C10_Witness ==
    /\ fres.job.op = "WriteText" /\ fres.job.path = GoodPath
    /\ fres.job.data # <<>> /\ fres.job.data[Len(fres.job.data)] # LF
    /\ fres.res.ret /\ win32
    /\ fs.bytes = fres.job.data \o <<CR, LF>>

\* C10: for every non-empty text t, after WriteText(path, t) returns true
\* ReadText(path) is t with a line break appended when t did not end with one,
\* and the content ends with exactly one line break, never with two or more.
C10_ExactlyOneLineBreak ==
    LET t == fres.job.data
        r == FileRun(fs, Job("ReadText", GoodPath), win32).bytes
    IN  (fres.job.op = "WriteText" /\ fres.job.path = GoodPath /\ t # <<>>
             /\ fres.res.ret) =>
           /\ r = (IF t[Len(t)] = LF THEN t ELSE t \o <<LF>>)
           /\ r[Len(r)] = LF
           /\ ~(Len(r) >= 2 /\ r[Len(r) - 1] = LF)

----------------------------------------------------------------------------
(* The asynchronous wrappers, checked under AsyncSpec and AsyncFairSpec. *)

\* C7: every future an AsyncFileReader or AsyncFileWriter method returned
\* eventually becomes ready, given that the worker thread is scheduled; each
\* call starts exactly one worker and returns with the task still pending,
\* doing none of the file work itself and touching no other task; and no step
\* of the caller (further calls, changes to its buffer, taking or destroying
\* the future) removes a task, changes its captures or its thread, or undoes a
\* result.
C7_FuturesBecomeReady ==
    /\ \A t \in TaskIds :
           (tasks[t].state # "none") ~> (tasks[t].state = "ready")
    /\ [](\A t \in TaskIds : tasks[t].state # "none" => tasks[t].threads = 1)
    /\ [][\A t \in TaskIds :
             /\ (tasks[t].state = "none" /\ tasks'[t].state # "none") =>
                   (/\ tasks'[t].state = "pending"
                    /\ fs' = fs
                    /\ \A u \in TaskIds \ {t} : tasks'[u] = tasks[u])
             /\ tasks[t].state # "none" =>
                   (/\ tasks'[t].state # "none"
                    /\ tasks'[t].job = tasks[t].job
                    /\ tasks'[t].threads = tasks[t].threads)
             /\ tasks[t].state = "ready" =>
                   (tasks'[t].state = "ready" /\ tasks'[t].res = tasks[t].res)
          ]_vars

\* every call of the run was made, one future was destroyed by the caller
\* before its worker had finished, and all the futures are ready
C7_Witness ==
    /\ \A t \in TaskIds : tasks[t].state = "ready"
    /\ tasks[1].future = "gone" /\ tasks[2].future = "held"
    /\ tasks[1].job.op = "ReadBytes" /\ tasks[2].job.op = "WriteBlock"

\* C8: the worker of every asynchronous method, WriteBlock included, runs the
\* synchronous method on the argument values as they were when the call was
\* made, whatever the caller does to its buffer between the call and the
\* worker's run.
C8_MirrorsSync ==
    \A t \in TaskIds :
        tasks[t].state = "ready" =>
            /\ tasks[t].used = tasks[t].given
            /\ \/ tasks[t].job.op # "WriteBlock"
               \/ tasks[t].res.ret = FALSE
               \/ SubSeq(fs.bytes, tasks[t].job.offset + 1,
                         tasks[t].job.offset + Len(tasks[t].given))
                      = tasks[t].given
               \/ \E u \in TaskIds \ {t} : tasks[u].job.op \in WriteOps

\* an asynchronous WriteBlock has written bytes that were not the bytes of the
\* caller's buffer at the time of the call
C8_WroteOtherBytes ==
    \E t \in TaskIds :
        /\ tasks[t].state = "ready" /\ tasks[t].job.op = "WriteBlock"
        /\ tasks[t].res.ret
        /\ tasks[t].used # tasks[t].given

----------------------------------------------------------------------------
(* Block reads and writes, checked under FileSpec. *)

\* C11: ReadBlock(path, size, offset) on a file of length L returns normally
\* for every size and offset, with an empty result whenever size = 0,
\* offset >= L or the mathematical sum offset + size exceeds L, and with
\* exactly the size bytes of the file from offset otherwise.
C11_NeverPartial ==
    LET L      == Len(fres.before.bytes)
        size   == fres.job.size
        offset == fres.job.offset
    IN  (fres.job.op = "ReadBlock" /\ fres.job.path = GoodPath
             /\ fres.before.exists) =>
           /\ ~fres.res.threw
           /\ fres.res.bytes =
                  (IF size = 0 \/ offset >= L \/ offset + size > L THEN <<>>
                   ELSE SubSeq(fres.before.bytes, offset + 1, offset + size))

\* a ReadBlock whose offset + size wrapped around left by an exception
C11_ReadBlockThrew ==
    /\ fres.job.op = "ReadBlock" /\ fres.res.threw
    /\ fres.job.offset + fres.job.size > SizeMax
    /\ fres.job.offset < Len(fres.before.bytes)

\* C12 (as amended): a successful WriteBlock(path, data, offset) on an
\* existing file of length L does not truncate: every byte below L outside
\* [offset, offset + |data|) keeps its value, the bytes inside that range
\* equal data, and the new length is max(L, offset + |data|) when data is not
\* empty and L when it is.
C12_WriteBlockFrame ==
    LET L   == Len(fres.before.bytes)
        d   == fres.job.data
        off == fres.job.offset
    IN  (fres.job.op = "WriteBlock" /\ fres.res.ret) =>
           /\ fres.before.exists /\ fs.exists
           /\ Len(fs.bytes) = (IF d = <<>> THEN L ELSE Max(L, off + Len(d)))
           /\ \A i \in 1..L :
                  (i <= off \/ i > off + Len(d)) => fs.bytes[i] = fres.before.bytes[i]
           /\ \A k \in 1..Len(d) : fs.bytes[off + k] = d[k]

\* a WriteBlock has overwritten the tail of the file and extended it
C12_Witness ==
    /\ fres.job.op = "WriteBlock" /\ fres.res.ret
    /\ fres.job.data # <<>>
    /\ fres.job.offset > 0 /\ fres.job.offset < Len(fres.before.bytes)
    /\ fres.job.offset + Len(fres.job.data) > Len(fres.before.bytes)

\* C12: a successful WriteBlock(path, data, offset) on an existing file of
\* length L keeps every byte below L outside [offset, offset + |data|), sets
\* the bytes inside it to data, and leaves the length max(L, offset + |data|).
C12_LengthIsMax ==
    LET L   == Len(fres.before.bytes)
        d   == fres.job.data
        off == fres.job.offset
    IN  (fres.job.op = "WriteBlock" /\ fres.res.ret) =>
           /\ \A i \in 1..L :
                  (i <= off \/ i > off + Len(d)) => fs.bytes[i] = fres.before.bytes[i]
           /\ \A k \in 1..Len(d) : fs.bytes[off + k] = d[k]
           /\ Len(fs.bytes) = Max(L, off + Len(d))

----------------------------------------------------------------------------
(* Path, checked under PathSpec. *)

\* the pieces of s between separators, empty ones included
RECURSIVE SplitAt(_, _)
SplitAt(s, sep) ==
    LET found == {i \in 1..Len(s) : s[i] = sep}
        k     == CHOOSE i \in found : \A j \in found : i <= j
    IN  IF found = {} THEN <<s>>
        ELSE <<SubSeq(s, 1, k - 1)>> \o SplitAt(SubSeq(s, k + 1, Len(s)), sep)

\* the segments of a stored string: a single leading separator opens none
SegmentsOf(s, sep) ==
    IF s = <<>> THEN <<>>
    ELSE SplitAt(IF s[1] = sep THEN Tail(s) ELSE s, sep)

\* normalized: the root, or a string with no empty segment, no '.' segment
\* and no '..' segment right after a segment other than '..'
Normalized(s, sep) ==
    \/ s = <<sep>>
    \/ /\ s # <<>>
       /\ LET segs == SegmentsOf(s, sep)
          IN  \A i \in 1..Len(segs) :
                  /\ segs[i] # <<>> /\ segs[i] # <<Dot>>
                  /\ segs[i] = DotDot => (i = 1 \/ segs[i - 1] = DotDot)

\* C13: for every raw string s from which a Path can be constructed,
\* constructing a Path from Path(s).Str() succeeds and yields the same string,
\* whether applied to the state the first construction left or made as the
\* next call.
C13_NormalizeIdempotent ==
    /\ []((plast.op = "Path" /\ ~plast.threw) =>
             PathCtor(pth.mPath, win32) = [threw |-> FALSE, mPath |-> pth.mPath])
    /\ [][(/\ plast.op = "Path" /\ ~plast.threw
           /\ plast'.op = "Path" /\ plast'.arg = pth.mPath) =>
              (~plast'.threw /\ pth'.mPath = pth.mPath)]_vars

\* a Path was constructed from a raw string with '..' and doubled separators
\* that normalization changed
C13_Witness ==
    /\ plast.op = "Path" /\ ~plast.threw
    /\ plast.arg # pth.mPath
    /\ \E i \in 1..(Len(plast.arg) - 1) :
           plast.arg[i] = PATH_SEPARATOR(win32) /\ plast.arg[i + 1] = PATH_SEPARATOR(win32)

\* C14: after any sequence of construction from a raw string, Join (both
\* overloads), operator/, Parent, ReplaceExtension and RelativeTo, the string
\* a Path holds is normalized.
C14_AlwaysNormalized ==
    (pth.live /\ ~pth.dflt) => Normalized(pth.mPath, PATH_SEPARATOR(win32))

\* the in-place Join has stored a string with a '..' segment after a name
C14_JoinedInPlace ==
    /\ plast.op = "JoinInPlace" /\ plast.arg = DotDot
    /\ pth.live /\ ~pth.dflt
    /\ Normalized(plast.pre.mPath, PATH_SEPARATOR(win32))
    /\ ~Normalized(pth.mPath, PATH_SEPARATOR(win32))

\* C15: for every raw string, Path(raw) is constructed and its segments are
\* those of raw with each '..' resolved against the segment before it (when
\* there is one and it is not '..') and with '.' and empty segments dropped;
\* Path("/a/b/../c").Str() is "/a/c".
C15_ResolvesSegments ==
    LET sep == PATH_SEPARATOR(win32)
    IN  plast.op = "Path" =>
           /\ ~plast.threw
           /\ SegmentsOf(pth.mPath, sep) = NormalizeParts(plast.arg, sep, 0, <<>>)
           /\ plast.arg = ExampleRaw => pth.mPath = <<Slash, 97, Slash, 99>>

\* with _WIN32, Path("/a/b/../c") holds "/a/b/../c"
C15_ExampleUnresolved ==
    /\ plast.op = "Path" /\ plast.arg = ExampleRaw /\ ~plast.threw
    /\ win32 /\ pth.mPath = ExampleRaw

\* C16: in both build configurations, when raw starts with the separator
\* Path(raw).Str() starts with exactly one separator, and when raw has a
\* segment and does not start with the separator Path(raw).Str() does not
\* start with one.
C16_KeepsAbsoluteness ==
    LET sep == PATH_SEPARATOR(win32)
        raw == plast.arg
        s   == pth.mPath
    IN  (plast.op = "Path" /\ ~plast.threw) =>
           /\ (raw # <<>> /\ raw[1] = sep) =>
                  (s[1] = sep /\ (Len(s) >= 2 => s[2] # sep))
           /\ (raw # <<>> /\ raw[1] # sep /\ NormalizeParts(raw, sep, 0, <<>>) # <<>>) =>
                  s[1] # sep

\* without _WIN32, Path("a") holds "/a"
C16_RelativeBecameRooted ==
    /\ plast.op = "Path" /\ ~plast.threw /\ ~win32
    /\ plast.arg = <<97>> /\ pth.mPath = <<Slash, 97>>

\* C17: in both build configurations, constructing a Path from the empty
\* string or from a raw string that leaves no segment completes normally and
\* yields the one-character root separator.
C17_EmptyYieldsRoot ==
    LET sep == PATH_SEPARATOR(win32)
    IN  (plast.op = "Path" /\ NormalizeParts(plast.arg, sep, 0, <<>>) = <<>>) =>
           (~plast.threw /\ pth.live /\ pth.mPath = <<sep>>)

\* with _WIN32, Path("") left by an exception
C17_EmptyThrew ==
    plast.op = "Path" /\ plast.arg = <<>> /\ plast.threw /\ win32

\* C18: for every Path p constructed from a raw string, p.Join("") and
\* p / "" complete and hold p's string.
C18_JoinEmptyIsIdentity ==
    (plast.op \in {"JoinConst", "operator/", "JoinInPlace"} /\ plast.arg = <<>>
         /\ ~plast.pre.dflt) =>
        (~plast.threw /\ pth.mPath = plast.pre.mPath)

\* without _WIN32, Path("a").Join("") holds the root "/"
C18_JoinEmptyGaveRoot ==
    /\ plast.op = "JoinConst" /\ plast.arg = <<>> /\ ~plast.threw /\ ~win32
    /\ plast.pre.mPath = <<Slash, 97>> /\ pth.mPath = <<Slash>>

\* C19: for every Path p built from a raw string, p.Parent().Str() is the
\* part of p.Str() before its last separator, and the single separator
\* character when p.Str() has no separator or its last separator is its first
\* character.
C19_ParentIsPrefix ==
    LET sep == PATH_SEPARATOR(win32)
        s   == plast.pre.mPath
        k   == FindLastOf(s, sep)
    IN  (plast.op = "Parent" /\ ~plast.pre.dflt) =>
           /\ ~plast.threw
           /\ pth.mPath = (IF k = -1 \/ k = 0 THEN <<sep>> ELSE SubSeq(s, 1, k))

\* without _WIN32, Path("/a").Parent() holds "/47"
C19_ParentIsNumber ==
    /\ plast.op = "Parent" /\ ~plast.threw /\ ~win32
    /\ plast.pre.mPath = <<Slash, 97>>
    /\ pth.mPath = <<Slash, 52, 55>>

\* C20: for all Paths p and base built from raw strings, p.RelativeTo(base)
\* is p unchanged when p.Str() does not begin with base.Str(), and holds "."
\* when the two strings are equal.
C20_RelativeToEdges ==
    LET p == plast.pre.mPath
        b == plast.base
    IN  (plast.op = "RelativeTo" /\ ~plast.pre.dflt) =>
           /\ (Len(b) > Len(p) \/ SubSeq(p, 1, Min(Len(b), Len(p))) # b) =>
                  (~plast.threw /\ pth.mPath = p)
           /\ p = b => (~plast.threw /\ pth.mPath = <<Dot>>)

\* without _WIN32, Path("a").RelativeTo(Path("a")) holds the root "/"
C20_ExactMatchGaveRoot ==
    /\ plast.op = "RelativeTo" /\ plast.base = plast.pre.mPath /\ ~plast.threw
    /\ ~win32 /\ plast.pre.mPath = <<Slash, 97>> /\ pth.mPath = <<Slash>>

----------------------------------------------------------------------------
(* DateTime, checked under DateSpec. *)

\* C24: the time string of a DateTime is, for local hour h, minute m and
\* second s, the two digits of the 12-hour hour (h mod 12, 12 in place of 0,
\* so within 1..12), ':', the two digits of m, ':', the two digits of s, and
\* " AM" when h < 12, " PM" otherwise; 0:00:00 gives "12:00:00 AM", 12:00:00
\* gives "12:00:00 PM" and 15:45:15 gives "03:45:15 PM".
C24_TwelveHourClock ==
    dt.str # <<>> =>
        LET h  == dt.tm.tm_hour
            m  == dt.tm.tm_min
            s  == dt.tm.tm_sec
            hh == IF h % 12 = 0 THEN 12 ELSE h % 12
        IN  /\ Len(dt.str) = 11
            /\ hh \in 1..12
            /\ dt.str = <<48 + (hh \div 10), 48 + (hh % 10), 58,
                          48 + (m \div 10), 48 + (m % 10), 58,
                          48 + (s \div 10), 48 + (s % 10), 32,
                          IF h < 12 THEN 65 ELSE 80, 77>>
            /\ (h = 0 /\ m = 0 /\ s = 0) =>
                   dt.str = <<49, 50, 58, 48, 48, 58, 48, 48, 32, 65, 77>>
            /\ (h = 12 /\ m = 0 /\ s = 0) =>
                   dt.str = <<49, 50, 58, 48, 48, 58, 48, 48, 32, 80, 77>>
            /\ (h = 15 /\ m = 45 /\ s = 15) =>
                   dt.str = <<48, 51, 58, 52, 53, 58, 49, 53, 32, 80, 77>>

\* TimeString() was called on a DateTime whose local time is midnight
C24_Witness ==
    /\ dt.live /\ dt.tm = [tm_hour |-> 0, tm_min |-> 0, tm_sec |-> 0]
    /\ dt.str = <<49, 50, 58, 48, 48, 58, 48, 48, 32, 65, 77>>

----------------------------------------------------------------------------
(* Directories, checked under DirSpec, DirFairSpec and EntriesFairSpec. *)

\* the Paths that repeated Parent() calls lead to from mPath, k calls deep
RECURSIVE Ancestors(_, _, _)
Ancestors(mPath, win, k) ==
    IF k = 0 THEN {}
    ELSE LET q == Parent(mPath, win).mPath IN {q} \cup Ancestors(q, win, k - 1)

\* C21: whenever p.CreateAll() has returned true, p and every Path that
\* repeated Parent() calls lead to from p exist, the directories created are
\* among these, no file changed and nothing was removed; and a p.CreateAll()
\* that directly follows a p.CreateAll() that returned true returns true and
\* leaves the file system unchanged.
C21_CreateAllChain ==
    /\ (dop.op = "CreateAll" /\ dop.done /\ dop.ret) =>
           LET chain == {dop.p} \cup Ancestors(dop.p, win32, MaxDepth)
           IN  /\ \A q \in chain : Exists(tree, q)
               /\ tree.dirs \ dop.pre.dirs \subseteq chain
               /\ dop.pre.dirs \subseteq tree.dirs
               /\ tree.files = dop.pre.files
    /\ (dop.op = "CreateAll" /\ dop.done /\ dop.prevP = dop.p /\ dop.prevRet) =>
           (dop.ret /\ tree = dop.pre)

\* CreateAll created a directory and returned true, and a Path that Parent()
\* leads to from p does not exist
C21_AncestorMissing ==
    /\ dop.op = "CreateAll" /\ dop.done /\ dop.ret
    /\ dop.p \in tree.dirs \ dop.pre.dirs
    /\ \E q \in Ancestors(dop.p, win32, MaxDepth) : ~Exists(tree, q)

\* C22: p.CopyDirectory(dest) on a directory p returns true exactly when the
\* destination directory already existed or could be created and every
\* attempt on a child returned true (every enumeration of the model ends
\* normally); and unless it returned at the destination, it attempted every
\* child of p, whatever the earlier attempts returned.
C22_CopyIsConjunction ==
    dop.op = "CopyDirectory" =>
        LET mk        == CreateDirectoryA(dop.pre, dop.dest)
            destThere == IsDirectory(dop.pre, dop.dest) \/ mk.ok
            names     == {dop.tried[i].name : i \in DOMAIN dop.tried}
        IN  /\ dop.ret <=> (destThere /\ \A i \in DOMAIN dop.tried : dop.tried[i].ret)
            /\ (mk.ok \/ mk.error = "ERROR_ALREADY_EXISTS") =>
                   names = ChildNames(dop.pre, dop.p)

\* CopyDirectory returned true although its destination was and still is a
\* regular file
C22_TrueOntoFile ==
    /\ dop.op = "CopyDirectory" /\ dop.ret
    /\ IsDirectory(dop.pre, dop.p)
    /\ IsFile(dop.pre, dop.dest) /\ IsFile(tree, dop.dest)

\* the immediate children of a directory, each as the directory's string
\* joined with the child's name
Kids(t, mPath) == {mPath \o <<Backslash>> \o n : n \in ChildNames(t, mPath)}

\* an iteration over p.Entries() has yielded immediate children of p only,
\* none of them twice, holds such a child unless it is at end, and at end has
\* yielded all of them
IterationSound ==
    dop.op = "Entries" =>
        LET kids == Kids(tree, dop.p)
        IN  /\ ~dop.it.mIsEnd => dop.it.mCurrent \in kids
            /\ \A i \in DOMAIN dop.seen : dop.seen[i] \in kids
            /\ \A i, j \in DOMAIN dop.seen : i # j => dop.seen[i] # dop.seen[j]
            /\ dop.it.mIsEnd => {dop.seen[i] : i \in DOMAIN dop.seen} = kids

\* C23: iterating p.Entries() from begin() with ++ until the iterator equals
\* end() comes to its end, and yields each immediate child of p exactly once,
\* as p's string joined with the child's name, and nothing else (no
\* grandchild, no entry named "." or ".."), wherever the OS reports the two
\* pseudo-entries; every iterator on the way is at end or holds such a child.
C23_YieldsChildrenOnce ==
    /\ []IterationSound
    /\ (dop.op = "Entries") ~> (dop.op = "Entries" /\ dop.it.mIsEnd)

\* the iteration over a directory that holds exactly the files a\a and a\b
\* has ended and has yielded exactly these two
C23_Witness ==
    /\ dop.op = "Entries" /\ dop.it.mIsEnd /\ dop.p = <<97>>
    /\ tree = [dirs |-> {<<97>>},
               files |-> {<<97, Backslash, 97>>, <<97, Backslash, 98>>}]
    /\ Len(dop.seen) = 2
    /\ {dop.seen[1], dop.seen[2]} = {<<97, Backslash, 97>>, <<97, Backslash, 98>>}

\* C25: every p.CreateAll() call returns, true or false, after finitely many
\* recursive calls, whatever p and the file system are.
C25_CreateAllTerminates ==
    (dop.op = "CreateAll" /\ ~dop.done) ~> dop.done

\* CreateAll calls, each on the Path of its caller and in the file system
\* the first of them found, have used up the stack, and no call has returned
C25_CallsItselfAgain ==
    /\ dop.op = "CreateAll" /\ ~dop.done /\ dop.overflow /\ dop.rv = "none"
    /\ Len(dop.stack) >= 3
    /\ \A i \in 2..Len(dop.stack) : dop.stack[i] = dop.stack[2]
    /\ tree = dop.pre

----------------------------------------------------------------------------
(* Rejected and concurrent writes, checked under FileSpec and AsyncSpec. *)

\* C26: a WriteText call whose text is empty returns false and leaves the
\* file system as it was: the file at the path has the content it had before
\* the call, and a file that did not exist still does not exist.
C26_EmptyTextLeavesFile ==
    (fres.job.op = "WriteText" /\ fres.job.data = <<>>) =>
        (~fres.res.ret /\ fs = fres.before)

\* WriteText with an empty text returned false on a file that held bytes, and
\* the file is now empty
C26_EmptyTextTruncated ==
    /\ fres.job.op = "WriteText" /\ fres.job.data = <<>>
    /\ fres.job.path = GoodPath /\ ~fres.res.ret
    /\ fres.before.exists /\ fres.before.bytes # <<>>
    /\ fs.exists /\ fs.bytes = <<>>

\* C27: when the only two calls made are AsyncFileWriter::WriteBytes calls on
\* the same path, with payloads A and B, then once both futures are ready the
\* file holds exactly A or exactly B, whatever the order of the two workers'
\* open-and-truncate and write steps.
C27_NoMixture ==
    \A t, u \in TaskIds :
        ( /\ t # u
          /\ \A v \in TaskIds \ {t, u} : tasks[v].state = "none"
          /\ \A v \in {t, u} : /\ tasks[v].state = "ready"
                               /\ tasks[v].job.op = "WriteBytes"
                               /\ tasks[v].job.path = GoodPath )
        => (fs.exists /\ fs.bytes \in {tasks[t].job.data, tasks[u].job.data})

\* both WriteBytes calls, of "AA" and of "\n", returned true and the file
\* holds "\nA"
C27_MixedContent ==
    \E t, u \in TaskIds :
        /\ tasks[t].state = "ready" /\ tasks[u].state = "ready"
        /\ tasks[t].job.op = "WriteBytes" /\ tasks[u].job.op = "WriteBytes"
        /\ tasks[t].job.data = <<65, 65>> /\ tasks[u].job.data = <<LF>>
        /\ tasks[t].res.ret /\ tasks[u].res.ret
        /\ fs.bytes = <<LF, 65>>

====
